---- MODULE Spec2Model ----
(***************************************************************************)
(* Model of the FormCtrl class of form-ctrl-vanilla (src/src/class.ts):    *)
(* value store, field state, internal message state, validation settings,  *)
(* the rule engine with synchronous and promise-returning validate         *)
(* functions, and the change hooks; and of the store of instances the      *)
(* class keeps (formCtrlHolder).                                           *)
(*                                                                         *)
(* Encoding of JavaScript values                                           *)
(*   - null / absent map entry / array hole : Null  (the empty tuple)      *)
(*   - a present object or array x          : <<x>>                        *)
(*   - undefined property                   : the string UNDEF             *)
(*   - field values                         : strings naming a literal     *)
(*     ("0" is the number 0, "" the empty string, "false" the boolean)     *)
(***************************************************************************)
EXTENDS Integers, Sequences, FiniteSets, TLC

VARIABLES
    valuesMap,         \* this._valuesMap        : field -> Null | <<value>>
    valuesKeys,        \* the keys of this._valuesMap in insertion order
    stateMap,          \* this._stateMap         : field -> Null | <<FormFieldState>>
    internalStateMap,  \* this._internalStateMap : field -> Null | <<FormFieldInternalState>>
    validationMap,     \* this._validationMap    : field -> Null | <<FormFieldValidation>>
    options,           \* this.options
    pending,           \* validate / validateField calls whose promise has not resolved yet
    fired,             \* hook invocations made by the last step, in order
    ret,               \* what the last step returned to its caller and which rules it invoked
    forms,             \* the id of every instance constructed so far; instance k is forms[k]
    formCtrlHolder     \* the Map formCtrlHolder: its entries [id, form] in insertion order

vars == <<valuesMap, valuesKeys, stateMap, internalStateMap, validationMap, options, pending, fired,
          ret, forms, formCtrlHolder>>

----------------------------------------------------------------------------
(* Bounds of the model *)

MaxCustom == 2      \* custom messages kept per field
MaxCount == 2       \* cap of the touched / changed / blurred counters
MaxPending == 2     \* validate calls in flight at the same time
MaxRules == 2       \* length of the longest rules array of the settings catalogue
MaxForms == 3       \* instances constructed in the specification of the store

----------------------------------------------------------------------------
(* Basic values *)

Null == <<>>
UNDEF == "undefined"

Fields == {"a", "b"}
FieldOrder == <<"a", "b">>

RuleIdx == 0 .. (MaxRules - 1)
RequiredSlot == -1          \* the index 'required' of validateRule

VUndef == "undefined"
VNull == "null"
VEmpty == ""
VZero == "0"
Values == {VUndef, VNull, VEmpty, VZero, "15", "20", "false"}

EventNames == {"onTouch", "onChange", "onBlur", "all"}

Msg(m, t) == [message |-> m, type |-> t]

RECURSIVE SeqAnd(_)
SeqAnd(s) == IF s = <<>> THEN TRUE ELSE Head(s) /\ SeqAnd(Tail(s))

----------------------------------------------------------------------------
(* utils *)

\* mutant of everyTruthy: stops before the last item
everyTruthyButLast(list) ==
    \A i \in 1 .. (Len(list) - 1) : list[i]

everyTruthy(list) ==
    \A i \in 1 .. Len(list) : list[i]

\* mutant of shallowEqual: two objects are equal only when they are the same
\* object, which a message built by processPassed never is
shallowEqualByReference(o1, o2) ==
    o1 = Null /\ o2 = Null

\* shallowEqual applied to two nullable message objects
shallowEqual(o1, o2) ==
    IF o1 = Null /\ o2 = Null THEN TRUE
    ELSE IF o1 = Null \/ o2 = Null THEN FALSE
    ELSE o1[1].message = o2[1].message /\ o1[1].type = o2[1].type

----------------------------------------------------------------------------
(* FORM_CTRL_DEFAULTS and the validate functions used by the settings *)

DefaultValidationEventName == "onBlur"
DefaultRequiredMessage == UNDEF

\* mutant of DefaultRequiredValidate: forgets the number 0
DefaultRequiredValidateNoZero(v) ==
    v # VUndef /\ v # VNull /\ v # VEmpty

\* FORM_CTRL_DEFAULTS.requiredValidate
DefaultRequiredValidate(v) ==
    v # VUndef /\ v # VNull /\ v # VEmpty /\ v # VZero

\* The predicates validate functions compute, by name:
\*   "default" FORM_CTRL_DEFAULTS.requiredValidate
\*   "truthy"  (v) => Boolean(v)
\*   "adult"   (v) => v > 17
\*   "eqB"     (v, fv) => v === fv.b        (reads the second argument)
\* result "throw" stands for an exception raised by the function
Predicate(name, v, fv) ==
    CASE name = "default" -> IF DefaultRequiredValidate(v) THEN "true" ELSE "false"
      [] name = "truthy"  -> IF v \in {VUndef, VNull, VEmpty, VZero, "false"} THEN "false" ELSE "true"
      [] name = "adult"   -> IF v = "20" THEN "true" ELSE "false"
      [] name = "eqB"     -> IF fv = Null THEN "throw"
                             ELSE IF v = fv[1]["b"] THEN "true" ELSE "false"
      [] OTHER            -> "false"

\* a validate function: how it answers (kind) and what it computes (pass)
\*   kind "none"   the rule has no validate
\*        "sync"   returns the boolean
\*        "async"  returns a promise resolving to the boolean
\*        "throw"  throws synchronously
\*        "reject" returns a promise that rejects
Fn(kind, pass) == [kind |-> kind, pass |-> pass]
NoFn == Fn("none", UNDEF)

Rule(message, type, typeIfPassed, validate, eventName) ==
    [message |-> message, type |-> type, typeIfPassed |-> typeIfPassed,
     validate |-> validate, needMoreValues |-> (validate.pass = "eqB"),
     eventName |-> eventName]

\* FormFieldRequired = boolean | string | Rule
NotRequired == [kind |-> "bool", b |-> FALSE, s |-> UNDEF, rule |-> Null]
RequiredTrue == [kind |-> "bool", b |-> TRUE, s |-> UNDEF, rule |-> Null]
RequiredString(s) == [kind |-> "string", b |-> FALSE, s |-> s, rule |-> Null]
RequiredRule(r) == [kind |-> "rule", b |-> FALSE, s |-> UNDEF, rule |-> <<r>>]

Validation(eventName, required, requiredValidate, rules) ==
    [eventName |-> eventName, required |-> required,
     requiredValidate |-> requiredValidate, rules |-> rules]

\* the entry of _validationMap for a key that holds undefined: a record apart
\* from every settings object
UndefinedEntry == << Validation("-", NotRequired, NoFn, <<>>) >>

\* !fieldValidation: the key is missing from _validationMap, or holds undefined
Unset(entry) == entry = Null \/ entry = UndefinedEntry

----------------------------------------------------------------------------
(* Hooks: every invocation of an options.on...Change handler is recorded *)

NoValue == "-"
HookEv(hook, field) ==
    [hook |-> hook, field |-> field,
     value |-> NoValue, prevValue |-> NoValue,
     messages |-> Null, prevMessages |-> Null,
     flag |-> FALSE, prevFlag |-> FALSE,
     seen |-> Null, onChangeOptions |-> Null]

\* the events of handlers that were handed onChangeOptions as last argument:
\* Null is undefined, <<obj>> an object given as the sequence of its entries
Passing(evs, onChangeOptions) ==
    [i \in 1 .. Len(evs) |-> [evs[i] EXCEPT !.onChangeOptions = onChangeOptions]]

\* mutant of OnValueChange: the handler is invoked without comparing
OnValueChangeAlways(field, value, prevValue) ==
    << [HookEv("onValueChange", field) EXCEPT !.value = value, !.prevValue = prevValue] >>

\* _onValueChange: Object.is on the literals of the model is equality
OnValueChange(field, value, prevValue) ==
    IF value = prevValue THEN <<>>
    ELSE << [HookEv("onValueChange", field) EXCEPT !.value = value, !.prevValue = prevValue] >>

\* _onMessagesChange: sameRef tells whether messages and prevMessages are the
\* same array object (or both null)
OnMessagesChange(field, messages, prevMessages, sameRef) ==
    IF sameRef THEN <<>>
    ELSE << [HookEv("onMessagesChange", field) EXCEPT !.messages = messages,
                                                      !.prevMessages = prevMessages] >>

\* mutant of OnErrorChange: the handler is called whether or not the flag flipped
OnErrorChangeAlways(field, error, prevError) ==
    << [HookEv("onErrorChange", field) EXCEPT !.flag = error, !.prevFlag = prevError] >>

OnErrorChange(field, error, prevError) ==
    IF error = prevError THEN <<>>
    ELSE << [HookEv("onErrorChange", field) EXCEPT !.flag = error, !.prevFlag = prevError] >>

OnWarningChange(field, warning, prevWarning) ==
    IF warning = prevWarning THEN <<>>
    ELSE << [HookEv("onWarningChange", field) EXCEPT !.flag = warning, !.prevFlag = prevWarning] >>

----------------------------------------------------------------------------
(* Field state and internal field state *)

EmptyFieldState ==
    [touched |-> 0, changed |-> 0, blurred |-> 0,
     error |-> FALSE, warning |-> FALSE, messages |-> Null]

EmptyInternalFieldState ==
    [requiredMessage |-> Null, rulesMessages |-> Null, customMessages |-> Null,
     errorOverride |-> Null, warningOverride |-> Null]

\* a new empty rulesMessages array: every index is a hole
EmptyRulesMessages == [i \in RuleIdx |-> Null]

\* _ensureFieldState / _ensureInternalFieldState: the map after the call
EnsureFieldState(st, field) ==
    IF st[field] = Null THEN [st EXCEPT ![field] = <<EmptyFieldState>>] ELSE st

EnsureInternalFieldState(ist, field) ==
    IF ist[field] = Null THEN [ist EXCEPT ![field] = <<EmptyInternalFieldState>>] ELSE ist

\* getFieldState(field) as a value (the entry it creates when absent is empty)
GetFieldState(field) == EnsureFieldState(stateMap, field)[field][1]

\* the defined entries of a rulesMessages array, in index order
RECURSIVE RulesMessagesFrom(_, _)
RulesMessagesFrom(arr, i) ==
    IF i >= MaxRules THEN <<>>
    ELSE (IF arr[i] = Null THEN <<>> ELSE <<arr[i][1]>>) \o RulesMessagesFrom(arr, i + 1)

\* the messages _updateFieldMessages visits, in the order it visits them
InternalMessageList(ifs) ==
    (IF ifs.requiredMessage = Null THEN <<>> ELSE <<ifs.requiredMessage[1]>>)
    \o (IF ifs.rulesMessages = Null THEN <<>> ELSE RulesMessagesFrom(ifs.rulesMessages[1], 0))
    \o (IF ifs.customMessages = Null THEN <<>> ELSE ifs.customMessages[1])

\* mutant of ProcessInternalMessage: the override no longer pins the flags
ProcessInternalMessageNoPin(acc, message, only, errorOverride, warningOverride) ==
    [messages |-> IF only = "full"
                  THEN <<(IF acc.messages = Null THEN <<>> ELSE acc.messages[1]) \o <<message>>>>
                  ELSE acc.messages,
     error    |-> IF only # "onlyWarning"
                  THEN (acc.error \/ message.type = "error")
                  ELSE acc.error,
     warning  |-> IF only # "onlyError"
                  THEN (acc.warning \/ message.type = "warning")
                  ELSE acc.warning]

\* processInternalMessage of _updateFieldMessages, on the triple it mutates
ProcessInternalMessage(acc, message, only, errorOverride, warningOverride) ==
    [messages |-> IF only = "full"
                  THEN <<(IF acc.messages = Null THEN <<>> ELSE acc.messages[1]) \o <<message>>>>
                  ELSE acc.messages,
     error    |-> IF only # "onlyWarning"
                  THEN (IF errorOverride # Null THEN errorOverride[1]
                        ELSE (acc.error \/ message.type = "error"))
                  ELSE acc.error,
     warning  |-> IF only # "onlyError"
                  THEN (IF warningOverride # Null THEN warningOverride[1]
                        ELSE (acc.warning \/ message.type = "warning"))
                  ELSE acc.warning]

RECURSIVE ProcessInternalMessages(_, _, _, _, _)
ProcessInternalMessages(acc, msgs, only, errorOverride, warningOverride) ==
    IF msgs = <<>> THEN acc
    ELSE ProcessInternalMessages(
             ProcessInternalMessage(acc, Head(msgs), only, errorOverride, warningOverride),
             Tail(msgs), only, errorOverride, warningOverride)

\* mutant of UpdateFieldMessagesStart: the array is created before the first push
UpdateFieldMessagesStartEager(fs, ifs, only) ==
    [messages |-> IF only = "full" THEN << <<>> >> ELSE fs.messages,
     error    |-> IF only # "onlyWarning"
                  THEN (IF ifs.errorOverride # Null THEN ifs.errorOverride[1] ELSE FALSE)
                  ELSE fs.error,
     warning  |-> IF only # "onlyError"
                  THEN (IF ifs.warningOverride # Null THEN ifs.warningOverride[1] ELSE FALSE)
                  ELSE fs.warning]

\* the three assignments _updateFieldMessages makes before it loops
UpdateFieldMessagesStart(fs, ifs, only) ==
    [messages |-> IF only = "full" THEN Null ELSE fs.messages,
     error    |-> IF only # "onlyWarning"
                  THEN (IF ifs.errorOverride # Null THEN ifs.errorOverride[1] ELSE FALSE)
                  ELSE fs.error,
     warning  |-> IF only # "onlyError"
                  THEN (IF ifs.warningOverride # Null THEN ifs.warningOverride[1] ELSE FALSE)
                  ELSE fs.warning]

\* _updateFieldMessages(field, _, only) with only in {"full", "onlyError", "onlyWarning"}.
\* Result: the two maps after the call and the hooks it fired.
UpdateFieldMessages(st, ist, field, only) ==
    LET st1  == EnsureFieldState(st, field)
        ist1 == EnsureInternalFieldState(ist, field)
        fs   == st1[field][1]
        ifs  == ist1[field][1]
        res  == ProcessInternalMessages(UpdateFieldMessagesStart(fs, ifs, only),
                                        InternalMessageList(ifs), only,
                                        ifs.errorOverride, ifs.warningOverride)
        \* a rebuilt array is a new object; in the "only" modes the array is kept
        sameRef == IF only = "full"
                   THEN (res.messages = Null /\ fs.messages = Null)
                   ELSE TRUE
    IN [st    |-> [st1 EXCEPT ![field] = <<[fs EXCEPT !.messages = res.messages,
                                                      !.error = res.error,
                                                      !.warning = res.warning]>>],
        ist   |-> ist1,
        fired |-> OnMessagesChange(field, res.messages, fs.messages, sameRef)
                  \o OnErrorChange(field, res.error, fs.error)
                  \o OnWarningChange(field, res.warning, fs.warning)]

----------------------------------------------------------------------------
(* The rule engine: validateField *)

\* getValue(field): an absent key reads as undefined
GetValue(vm, field) == IF vm[field] = Null THEN VUndef ELSE vm[field][1]

\* getValues(): the snapshot handed to a validate function that needs it
GetValues(vm) == [f \in Fields |-> GetValue(vm, f)]

\* mutant of RuleEventName: the form-wide option wins over the field's eventName
RuleEventNameFormFirst(rule, fv, opts) ==
    IF rule.eventName # UNDEF THEN rule.eventName
    ELSE IF opts.validationEventName # UNDEF THEN opts.validationEventName
    ELSE IF fv.eventName # UNDEF THEN fv.eventName
    ELSE DefaultValidationEventName

\* ruleEventName of validateRule
RuleEventName(rule, fv, opts) ==
    IF rule.eventName # UNDEF THEN rule.eventName
    ELSE IF fv.eventName # UNDEF THEN fv.eventName
    ELSE IF opts.validationEventName # UNDEF THEN opts.validationEventName
    ELSE DefaultValidationEventName

\* mutant of RuleSkipped: the onTouch / onChange exception is symmetric
RuleSkippedSymmetric(eventName, ruleEventName) ==
    /\ eventName # "all"
    /\ ruleEventName # "all"
    /\ ruleEventName # eventName
    /\ ~(eventName \in {"onTouch", "onChange"} /\ ruleEventName \in {"onTouch", "onChange"})

\* the early return of validateRule
RuleSkipped(eventName, ruleEventName) ==
    /\ eventName # "all"
    /\ ruleEventName # "all"
    /\ ruleEventName # eventName
    /\ (eventName # "onTouch" \/ ruleEventName # "onChange")

\* mutant of CallValidate: a missing validate counts as passed
CallValidateLenient(rule, value, vm) ==
    LET fn == rule.validate
        r  == Predicate(fn.pass, value, IF rule.needMoreValues THEN <<GetValues(vm)>> ELSE Null)
    IN CASE fn.kind = "sync"   -> [promise |-> FALSE, passed |-> (r = "true"), rejects |-> FALSE]
         [] fn.kind = "async"  -> [promise |-> TRUE, passed |-> (r = "true"), rejects |-> (r = "throw")]
         [] fn.kind = "reject" -> [promise |-> TRUE, passed |-> FALSE, rejects |-> TRUE]
         [] fn.kind = "throw"  -> [promise |-> FALSE, passed |-> FALSE, rejects |-> FALSE]
         [] OTHER              -> [promise |-> FALSE, passed |-> TRUE, rejects |-> FALSE]

\* the try / catch around rule.validate(value, moreValues):
\*   promise  the function returned a promise
\*   passed   the boolean returned, or the one the promise resolves to
\*   rejects  the promise rejects
CallValidate(rule, value, vm) ==
    LET fn == rule.validate
        r  == Predicate(fn.pass, value, IF rule.needMoreValues THEN <<GetValues(vm)>> ELSE Null)
    IN CASE fn.kind = "sync"   -> [promise |-> FALSE, passed |-> (r = "true"), rejects |-> FALSE]
         [] fn.kind = "async"  -> [promise |-> TRUE, passed |-> (r = "true"), rejects |-> (r = "throw")]
         [] fn.kind = "reject" -> [promise |-> TRUE, passed |-> FALSE, rejects |-> TRUE]
         [] OTHER              -> [promise |-> FALSE, passed |-> FALSE, rejects |-> FALSE]

\* mutant of MsgTypeOf: a passed rule never leaves a message
MsgTypeOfNoPassed(rule, passed) ==
    IF passed THEN UNDEF
    ELSE IF rule.type # UNDEF THEN rule.type ELSE "error"

\* msgType of processPassed
MsgTypeOf(rule, passed) ==
    IF passed THEN rule.typeIfPassed
    ELSE IF rule.type # UNDEF THEN rule.type ELSE "error"

\* mutant of ProcessPassed: a rule slot that holds a message is not written again
ProcessPassedKeepFirst(req, arr, rule, slot, passed) ==
    LET msgType == MsgTypeOf(rule, passed)
        message == <<Msg(rule.message, msgType)>>
    IN IF slot = RequiredSlot
       THEN IF msgType # UNDEF /\ ~shallowEqual(req, message)
            THEN [req |-> message, arr |-> arr, upd |-> TRUE]
            ELSE IF msgType = UNDEF /\ req # Null
            THEN [req |-> Null, arr |-> arr, upd |-> TRUE]
            ELSE [req |-> req, arr |-> arr, upd |-> FALSE]
       ELSE IF msgType # UNDEF /\ arr[slot] = Null
            THEN [req |-> req, arr |-> [arr EXCEPT ![slot] = message], upd |-> TRUE]
            ELSE [req |-> req, arr |-> arr, upd |-> FALSE]

\* processPassed on the two objects it writes: req is internalFieldState.requiredMessage,
\* arr the captured rulesMessages array; upd tells whether needUpdate was set
ProcessPassed(req, arr, rule, slot, passed) ==
    LET msgType == MsgTypeOf(rule, passed)
        message == <<Msg(rule.message, msgType)>>
    IN IF msgType # UNDEF
       THEN IF slot = RequiredSlot
            THEN IF ~shallowEqual(req, message)
                 THEN [req |-> message, arr |-> arr, upd |-> TRUE]
                 ELSE [req |-> req, arr |-> arr, upd |-> FALSE]
            ELSE IF ~shallowEqual(arr[slot], message)
                 THEN [req |-> req, arr |-> [arr EXCEPT ![slot] = message], upd |-> TRUE]
                 ELSE [req |-> req, arr |-> arr, upd |-> FALSE]
       ELSE IF slot = RequiredSlot
            THEN IF req # Null
                 THEN [req |-> Null, arr |-> arr, upd |-> TRUE]
                 ELSE [req |-> req, arr |-> arr, upd |-> FALSE]
            ELSE IF arr[slot] # Null
                 THEN [req |-> req, arr |-> [arr EXCEPT ![slot] = Null], upd |-> TRUE]
                 ELSE [req |-> req, arr |-> arr, upd |-> FALSE]

\* an entry of the results array of validateField
\*   done     the entry is a boolean (a synchronous rule, or a promise that settled)
\*   value    that boolean
ResultEntry(slot, rule, call) ==
    [slot |-> slot, rule |-> rule, done |-> ~call.promise,
     value |-> (~call.promise /\ call.passed),
     passed |-> call.passed, rejects |-> call.rejects]

\* mutant of ValidateRule: the message of a rule that is not evaluated is dropped
ValidateRuleDroppingSkipped(acc, rule, slot, eventName, fv, opts, value, vm) ==
    IF RuleSkipped(eventName, RuleEventName(rule, fv, opts))
    THEN IF slot = RequiredSlot
         THEN [acc EXCEPT !.req = Null, !.needUpdate = @ \/ acc.req # Null]
         ELSE [acc EXCEPT !.arr = [acc.arr EXCEPT ![slot] = Null],
                          !.needUpdate = @ \/ acc.arr[slot] # Null]
    ELSE LET call == CallValidate(rule, value, vm)
             pp   == ProcessPassed(acc.req, acc.arr, rule, slot, call.passed)
         IN IF call.promise
            THEN [acc EXCEPT !.promisified = TRUE,
                             !.results = Append(@, ResultEntry(slot, rule, call))]
            ELSE [acc EXCEPT !.req = pp.req, !.arr = pp.arr,
                             !.needUpdate = @ \/ pp.upd,
                             !.results = Append(@, ResultEntry(slot, rule, call))]

\* validateRule(rule, index) on the closure state of validateField
ValidateRule(acc, rule, slot, eventName, fv, opts, value, vm) ==
    IF RuleSkipped(eventName, RuleEventName(rule, fv, opts)) THEN acc
    ELSE LET call == CallValidate(rule, value, vm)
             pp   == ProcessPassed(acc.req, acc.arr, rule, slot, call.passed)
         IN IF call.promise
            THEN [acc EXCEPT !.promisified = TRUE,
                             !.results = Append(@, ResultEntry(slot, rule, call))]
            ELSE [acc EXCEPT !.req = pp.req, !.arr = pp.arr,
                             !.needUpdate = @ \/ pp.upd,
                             !.results = Append(@, ResultEntry(slot, rule, call))]

\* the condition  if (fieldValidation.required)
RequiredIsSet(required) ==
    \/ required.kind = "bool" /\ required.b
    \/ required.kind = "string" /\ required.s # ""
    \/ required.kind = "rule"

\* a || b on optional validate functions and optional strings
OrFn(f, g) == IF f.kind # "none" THEN f ELSE g
OrStr(s, t) == IF s # UNDEF /\ s # "" THEN s ELSE t

\* mutant of RequiredRuleOf: the form's requiredValidate wins over the field's
RequiredRuleOfFormFirst(fv, opts) ==
    IF fv.required.kind = "rule" THEN fv.required.rule[1]
    ELSE Rule(IF fv.required.kind = "string" THEN fv.required.s
              ELSE OrStr(opts.requiredMessage, DefaultRequiredMessage),
              "error", UNDEF,
              OrFn(opts.requiredValidate, OrFn(fv.requiredValidate, Fn("sync", "default"))),
              UNDEF)

\* requiredRule of validateField
RequiredRuleOf(fv, opts) ==
    IF fv.required.kind = "rule" THEN fv.required.rule[1]
    ELSE Rule(IF fv.required.kind = "string" THEN fv.required.s
              ELSE OrStr(opts.requiredMessage, DefaultRequiredMessage),
              "error", UNDEF,
              OrFn(fv.requiredValidate, OrFn(opts.requiredValidate, Fn("sync", "default"))),
              UNDEF)

RECURSIVE ValidateRules(_, _, _, _, _, _, _, _)
ValidateRules(acc, rules, i, eventName, fv, opts, value, vm) ==
    IF i > Len(rules) THEN acc
    ELSE ValidateRules(ValidateRule(acc, rules[i], i - 1, eventName, fv, opts, value, vm),
                       rules, i + 1, eventName, fv, opts, value, vm)

\* the values of a results array whose entries are all booleans
ResultValues(results) == [i \in 1 .. Len(results) |-> results[i].value]

\* what each invoked validate function answered, in invocation order
ResultOutcomes(results) == [i \in 1 .. Len(results) |-> results[i].passed /\ ~results[i].rejects]

ResultSlots(field, results) ==
    [i \in 1 .. Len(results) |-> [field |-> field, slot |-> results[i].slot]]

\* mutant of ValidateField: a validation drops the custom messages of the field
ValidateFieldDroppingCustom(st, ist, vm, vals, opts, field, eventName) ==
    IF Unset(vals[field])
    THEN [st |-> st, ist |-> ist, fired |-> <<>>,
          item |-> [field |-> field, promise |-> FALSE, done |-> TRUE, value |-> TRUE,
                    live |-> FALSE, rmLive |-> FALSE, update |-> FALSE, results |-> <<>>],
          invoked |-> <<>>, outcomes |-> <<>>]
    ELSE
    LET fv   == vals[field][1]
        ist1 == EnsureInternalFieldState(ist, field)
        ifs  == ist1[field][1]
        arr0 == IF ifs.rulesMessages = Null THEN EmptyRulesMessages ELSE ifs.rulesMessages[1]
        acc0 == [req |-> ifs.requiredMessage, arr |-> arr0, needUpdate |-> FALSE,
                 promisified |-> FALSE, results |-> <<>>]
        value == GetValue(vm, field)
        acc1 == IF RequiredIsSet(fv.required)
                THEN ValidateRule(acc0, RequiredRuleOf(fv, opts), RequiredSlot,
                                  eventName, fv, opts, value, vm)
                ELSE acc0
        acc2 == ValidateRules(acc1, fv.rules, 1, eventName, fv, opts, value, vm)
        ist2 == [ist1 EXCEPT ![field] = <<[ifs EXCEPT !.requiredMessage = acc2.req,
                                                      !.rulesMessages = <<acc2.arr>>,
                                                      !.customMessages = Null]>>]
        upd  == IF ~acc2.promisified /\ acc2.needUpdate
                THEN UpdateFieldMessages(st, ist2, field, "full")
                ELSE [st |-> st, ist |-> ist2, fired |-> <<>>]
    IN [st |-> upd.st, ist |-> upd.ist, fired |-> upd.fired,
        item |-> [field |-> field, promise |-> acc2.promisified,
                  done |-> ~acc2.promisified,
                  value |-> (~acc2.promisified /\ everyTruthy(ResultValues(acc2.results))),
                  live |-> acc2.promisified, rmLive |-> acc2.promisified,
                  update |-> (acc2.promisified /\ acc2.needUpdate),
                  results |-> acc2.results],
        invoked |-> ResultSlots(field, acc2.results),
        outcomes |-> ResultOutcomes(acc2.results)]

\* validateField(field, eventName) up to its return statement.
\*   st, ist  the maps after the call, fired the hooks
\*   item     the result: a boolean (promise = FALSE) or the pending promise with
\*            what its callbacks captured: live tells that the captured
\*            internalFieldState is still the entry of _internalStateMap, rmLive
\*            that the captured rulesMessages array is still its rulesMessages,
\*            update is needUpdate as it was when processBools was chosen
ValidateField(st, ist, vm, vals, opts, field, eventName) ==
    IF Unset(vals[field])
    THEN [st |-> st, ist |-> ist, fired |-> <<>>,
          item |-> [field |-> field, promise |-> FALSE, done |-> TRUE, value |-> TRUE,
                    live |-> FALSE, rmLive |-> FALSE, update |-> FALSE, results |-> <<>>],
          invoked |-> <<>>, outcomes |-> <<>>]
    ELSE
    LET fv   == vals[field][1]
        ist1 == EnsureInternalFieldState(ist, field)
        ifs  == ist1[field][1]
        arr0 == IF ifs.rulesMessages = Null THEN EmptyRulesMessages ELSE ifs.rulesMessages[1]
        acc0 == [req |-> ifs.requiredMessage, arr |-> arr0, needUpdate |-> FALSE,
                 promisified |-> FALSE, results |-> <<>>]
        value == GetValue(vm, field)
        acc1 == IF RequiredIsSet(fv.required)
                THEN ValidateRule(acc0, RequiredRuleOf(fv, opts), RequiredSlot,
                                  eventName, fv, opts, value, vm)
                ELSE acc0
        acc2 == ValidateRules(acc1, fv.rules, 1, eventName, fv, opts, value, vm)
        ist2 == [ist1 EXCEPT ![field] = <<[ifs EXCEPT !.requiredMessage = acc2.req,
                                                      !.rulesMessages = <<acc2.arr>>]>>]
        upd  == IF ~acc2.promisified /\ acc2.needUpdate
                THEN UpdateFieldMessages(st, ist2, field, "full")
                ELSE [st |-> st, ist |-> ist2, fired |-> <<>>]
    IN [st |-> upd.st, ist |-> upd.ist, fired |-> upd.fired,
        item |-> [field |-> field, promise |-> acc2.promisified,
                  done |-> ~acc2.promisified,
                  value |-> (~acc2.promisified /\ everyTruthy(ResultValues(acc2.results))),
                  live |-> acc2.promisified, rmLive |-> acc2.promisified,
                  update |-> (acc2.promisified /\ acc2.needUpdate),
                  results |-> acc2.results],
        invoked |-> ResultSlots(field, acc2.results),
        outcomes |-> ResultOutcomes(acc2.results)]

----------------------------------------------------------------------------
(* Calls in flight *)

NoRet ==
    [op |-> "none", fields |-> <<>>, eventName |-> "-", kind |-> "void", value |-> TRUE,
     invoked |-> <<>>, outcomes |-> <<>>, saw |-> <<>>]

\* the record of a call: the fields it validated and with which eventName, what
\* it returned (kind "boolean" or "promise", "resolved" once the promise has
\* resolved, "void" for the operations that return nothing), the slots whose
\* validate it invoked and what each answered; saw is filled by the operations
\* that write values: what each validate function they invoked could read of
\* the form when it was invoked
CallRet(op, fields, eventName, kind, value, invoked, outcomes) ==
    [op |-> op, fields |-> fields, eventName |-> eventName, kind |-> kind, value |-> value,
     invoked |-> invoked, outcomes |-> outcomes, saw |-> <<>>]

PendingCall(op, fields, eventName, items, invoked, outcomes) ==
    [op |-> op, fields |-> fields, eventName |-> eventName, items |-> items,
     invoked |-> invoked, outcomes |-> outcomes, onChangeOptions |-> Null]

\* the captured objects of the unsettled validations of a field lose their place:
\* all = TRUE when the internalFieldState entry is deleted, FALSE when only its
\* rulesMessages is set to null
DetachItem(item, fields, all) ==
    IF item.field \in fields /\ item.promise /\ ~item.done
    THEN [item EXCEPT !.live = IF all THEN FALSE ELSE @, !.rmLive = FALSE]
    ELSE item

Detach(pend, fields, all) ==
    [c \in 1 .. Len(pend) |->
        [pend[c] EXCEPT !.items = [i \in 1 .. Len(pend[c].items) |->
                                      DetachItem(pend[c].items[i], fields, all)]]]

RemoveAt(s, k) == SubSeq(s, 1, k - 1) \o SubSeq(s, k + 1, Len(s))

ItemValues(items) == [i \in 1 .. Len(items) |-> items[i].value]

----------------------------------------------------------------------------
(* Values: a values object is the sequence of its own properties in for..in
   order, each a record [field, value] *)

Entry(field, value) == [field |-> field, value |-> value]

NoValues == [f \in Fields |-> Null]

ObjectKeys(obj) == [i \in 1 .. Len(obj) |-> obj[i].field]

\* Object.prototype.hasOwnProperty.call(obj, field)
HasOwn(obj, field) == \E i \in 1 .. Len(obj) : obj[i].field = field

\* Map.set on the key order: a new key goes last, a key already there keeps its place
KeysAfterSet(keys, field) ==
    IF \E i \in 1 .. Len(keys) : keys[i] = field THEN keys ELSE Append(keys, field)

\* valuesMap.set(field, obj[field]) for every field in obj
RECURSIVE SetAll(_, _)
SetAll(m, obj) ==
    IF obj = <<>> THEN m
    ELSE SetAll([vm |-> [m.vm EXCEPT ![Head(obj).field] = <<Head(obj).value>>],
                 keys |-> KeysAfterSet(m.keys, Head(obj).field)],
                Tail(obj))

\* what a handler reads with getValues() while it runs
Seen(evs, vm) == [i \in 1 .. Len(evs) |-> [evs[i] EXCEPT !.seen = <<GetValues(vm)>>]]

RECURSIVE ConcatAll(_)
ConcatAll(ss) == IF ss = <<>> THEN <<>> ELSE Head(ss) \o ConcatAll(Tail(ss))

\* mutant of SetValues: onValueChange is triggered right after each write
SetValuesInterleaved(vm, keys, newValues) ==
    LET m == SetAll([vm |-> vm, keys |-> keys], newValues)
    IN [vm |-> m.vm, keys |-> m.keys,
        fired |-> ConcatAll([i \in 1 .. Len(newValues) |->
                     Seen(OnValueChange(newValues[i].field, newValues[i].value,
                                        GetValue(vm, newValues[i].field)),
                          SetAll([vm |-> vm, keys |-> keys], SubSeq(newValues, 1, i)).vm)]),
        fields |-> ObjectKeys(newValues)]

\* _setValues(newValues): every value is written, then onValueChange is
\* triggered for every field of newValues; returns the fields
SetValues(vm, keys, newValues) ==
    LET m == SetAll([vm |-> vm, keys |-> keys], newValues)
    IN [vm |-> m.vm, keys |-> m.keys,
        fired |-> ConcatAll([i \in 1 .. Len(newValues) |->
                     Seen(OnValueChange(newValues[i].field, newValues[i].value,
                                        GetValue(vm, newValues[i].field)),
                          m.vm)]),
        fields |-> ObjectKeys(newValues)]

\* _clearValues(): the map is emptied, then onValueChange is triggered for
\* every entry it had; returns the fields that had an entry
ClearValues(vm, keys) ==
    [vm |-> NoValues, keys |-> <<>>,
     fired |-> ConcatAll([i \in 1 .. Len(keys) |->
                  Seen(OnValueChange(keys[i], VUndef, GetValue(vm, keys[i])), NoValues)]),
     fields |-> keys]

\* mutant of ResetValues: the old entries are not cleared first
ResetValuesKeepOld(vm, keys, newValues) ==
    IF newValues = Null THEN ClearValues(vm, keys)
    ELSE SetValues(vm, keys, newValues[1])

\* mutant of ResetValues: a field of both sets is returned for each of them
ResetValuesDuplicates(vm, keys, newValues) ==
    IF newValues = Null THEN ClearValues(vm, keys)
    ELSE LET obj == newValues[1]
             m   == SetAll([vm |-> NoValues, keys |-> <<>>], obj)
         IN [vm |-> m.vm, keys |-> m.keys,
             fired |-> ConcatAll([i \in 1 .. Len(keys) |->
                          Seen(OnValueChange(keys[i], VUndef, GetValue(vm, keys[i])), m.vm)])
                       \o ConcatAll([i \in 1 .. Len(obj) |->
                          Seen(OnValueChange(obj[i].field, obj[i].value, VUndef), m.vm)]),
             fields |-> keys \o ObjectKeys(obj)]

\* _resetValues(newValues) with newValues already defaulted to
\* options.defaultValues: Null is a missing object
ResetValues(vm, keys, newValues) ==
    IF newValues = Null THEN ClearValues(vm, keys)
    ELSE LET obj == newValues[1]
             m   == SetAll([vm |-> NoValues, keys |-> <<>>], obj)
             IsOldOnly(f) == ~HasOwn(obj, f)
             old == SelectSeq(keys, IsOldOnly)
         IN [vm |-> m.vm, keys |-> m.keys,
             fired |-> ConcatAll([i \in 1 .. Len(old) |->
                          Seen(OnValueChange(old[i], VUndef, GetValue(vm, old[i])), m.vm)])
                       \o ConcatAll([i \in 1 .. Len(obj) |->
                          Seen(OnValueChange(obj[i].field, obj[i].value,
                                             GetValue(vm, obj[i].field)), m.vm)]),
             fields |-> old \o ObjectKeys(obj)]

----------------------------------------------------------------------------
(* The store of instances: formCtrlHolder, a Map from id to instance *)

\* the ids forms are constructed with; FormId is the id of the form whose
\* maps the model holds, which is instance 1
FormIds == {"x", "y"}
FormId == "x"

Registered(id, form) == [id |-> id, form |-> form]

\* Map.has, Map.get (Null is undefined), Map.keys
HolderHas(holder, id) == \E i \in 1 .. Len(holder) : holder[i].id = id
HolderGet(holder, id) ==
    IF HolderHas(holder, id)
    THEN <<holder[CHOOSE i \in 1 .. Len(holder) : holder[i].id = id].form>>
    ELSE Null
HolderKeys(holder) == [i \in 1 .. Len(holder) |-> holder[i].id]

\* mutant of HolderSet: the entry is added after the ones the Map has
HolderSetAppending(holder, id, form) == Append(holder, Registered(id, form))

\* Map.set: the value of a key the Map has is replaced where the key is
HolderSet(holder, id, form) ==
    IF HolderHas(holder, id)
    THEN [i \in 1 .. Len(holder) |->
             IF holder[i].id = id THEN Registered(id, form) ELSE holder[i]]
    ELSE Append(holder, Registered(id, form))

\* Map.delete
HolderDelete(holder, id) == SelectSeq(holder, LAMBDA e : e.id # id)

----------------------------------------------------------------------------
(* Init: the state right after the constructor *)

NoOptions ==
    [validationEventName |-> UNDEF, requiredValidate |-> NoFn, requiredMessage |-> UNDEF,
     defaultValues |-> Null]

NoValidation == [f \in Fields |-> Null]

\* the constructor without 'values': the maps are empty, setValidation stores
\* the settings and _setValues stores options.defaultValues when there are any
InitWith(vals, opts) ==
    LET w == IF opts.defaultValues = Null
             THEN [vm |-> NoValues, keys |-> <<>>, fired |-> <<>>, fields |-> <<>>]
             ELSE SetValues(NoValues, <<>>, opts.defaultValues[1])
    IN /\ valuesMap = w.vm
       /\ valuesKeys = w.keys
       /\ stateMap = [f \in Fields |-> Null]
       /\ internalStateMap = [f \in Fields |-> Null]
       /\ validationMap = vals
       /\ options = opts
       /\ pending = <<>>
       /\ fired = w.fired
       /\ ret = NoRet
       /\ forms = <<FormId>>
       /\ formCtrlHolder = <<Registered(FormId, 1)>>

\* mutant of Spread: the properties of the first object win
SpreadFirstWins(a, b) ==
    LET oa == IF a = Null THEN <<>> ELSE a[1]
        ob == IF b = Null THEN <<>> ELSE b[1]
    IN oa \o SelectSeq(ob, LAMBDA e : ~HasOwn(oa, e.field))

\* { ...a, ...b }: the keys of a in their order with the values b gives them,
\* then the other keys of b; an undefined operand (Null) spreads nothing
Spread(a, b) ==
    LET oa == IF a = Null THEN <<>> ELSE a[1]
        ob == IF b = Null THEN <<>> ELSE b[1]
        Pick(obj, f) == obj[CHOOSE i \in 1 .. Len(obj) : obj[i].field = f].value
    IN [i \in 1 .. Len(oa) |->
           IF HasOwn(ob, oa[i].field) THEN Entry(oa[i].field, Pick(ob, oa[i].field))
           ELSE oa[i]]
       \o SelectSeq(ob, LAMBDA e : ~HasOwn(oa, e.field))

\* new FormCtrl(id, {validation, values, ...options}); ret records the call
\* and the values it was given
InitWithValues(vals, values, opts) ==
    LET w == IF values = Null /\ opts.defaultValues = Null
             THEN [vm |-> NoValues, keys |-> <<>>, fired |-> <<>>, fields |-> <<>>]
             ELSE SetValues(NoValues, <<>>, Spread(opts.defaultValues, values))
    IN /\ valuesMap = w.vm
       /\ valuesKeys = w.keys
       /\ stateMap = [f \in Fields |-> Null]
       /\ internalStateMap = [f \in Fields |-> Null]
       /\ validationMap = vals
       /\ options = opts
       /\ pending = <<>>
       /\ fired = w.fired
       /\ ret = [NoRet EXCEPT !.op = "constructor", !.value = values]
       /\ forms = <<FormId>>
       /\ formCtrlHolder = <<Registered(FormId, 1)>>

----------------------------------------------------------------------------
(* Operations *)

\* the part of an operation that follows a validateField whose result it got:
\* records the call and keeps a returned promise in flight; onChangeOptions
\* is what the callbacks of the promise will hand to _updateFieldMessages
AfterValidateSaw(op, eventName, kind, vf, onChangeOptions, saw) ==
    /\ vf.item.promise => Len(pending) < MaxPending
    /\ pending' = IF vf.item.promise
                  THEN Append(pending,
                              [PendingCall(op, <<vf.item.field>>, eventName,
                                           <<vf.item>>, vf.invoked, vf.outcomes)
                               EXCEPT !.onChangeOptions = onChangeOptions])
                  ELSE pending
    /\ ret' = [CallRet(op, <<vf.item.field>>, eventName,
                       IF kind = "void" THEN "void"
                       ELSE IF vf.item.promise THEN "promise" ELSE "boolean",
                       vf.item.value, vf.invoked, vf.outcomes)
               EXCEPT !.saw = saw]

AfterValidateWith(op, eventName, kind, vf, onChangeOptions) ==
    AfterValidateSaw(op, eventName, kind, vf, onChangeOptions, <<>>)

AfterValidate(op, eventName, kind, vf) == AfterValidateWith(op, eventName, kind, vf, Null)

\* mutant of validateField: the internal state of the field is ensured before
\* the settings are looked up
validateFieldEnsuring(field, eventName) ==
    \E vf \in {ValidateField(stateMap, internalStateMap, valuesMap, validationMap,
                             options, field, eventName)} :
        /\ stateMap' = vf.st
        /\ internalStateMap' = EnsureInternalFieldState(vf.ist, field)
        /\ fired' = vf.fired
        /\ AfterValidate("validateField", eventName, "result", vf)
        /\ UNCHANGED <<valuesMap, valuesKeys, validationMap, options, forms, formCtrlHolder>>

\* validateField(field, eventName)
validateField(field, eventName) ==
    \E vf \in {ValidateField(stateMap, internalStateMap, valuesMap, validationMap,
                             options, field, eventName)} :
        /\ stateMap' = vf.st
        /\ internalStateMap' = vf.ist
        /\ fired' = vf.fired
        /\ AfterValidate("validateField", eventName, "result", vf)
        /\ UNCHANGED <<valuesMap, valuesKeys, validationMap, options, forms, formCtrlHolder>>

\* the loop of validate over the fields still to visit
RECURSIVE ValidateLoop(_, _, _)
ValidateLoop(acc, fields, eventName) ==
    IF fields = <<>> THEN acc
    ELSE LET Collect(vf) ==
                 [st |-> vf.st, ist |-> vf.ist, fired |-> acc.fired \o vf.fired,
                  promisified |-> acc.promisified \/ vf.item.promise,
                  allResults |-> Append(acc.allResults, vf.item),
                  invoked |-> acc.invoked \o vf.invoked,
                  outcomes |-> acc.outcomes \o vf.outcomes]
         IN ValidateLoop(Collect(ValidateField(acc.st, acc.ist, valuesMap, validationMap,
                                               options, Head(fields), eventName)),
                         Tail(fields), eventName)

\* this._validationMap.keys(), in the order the fields were given
RECURSIVE ValidationKeys(_)
ValidationKeys(order) ==
    IF order = <<>> THEN <<>>
    ELSE (IF validationMap[Head(order)] # Null THEN <<Head(order)>> ELSE <<>>)
         \o ValidationKeys(Tail(order))

\* validate(fields, eventName): fields is a sequence of fields
validate(fields, eventName) ==
    \E r \in {ValidateLoop([st |-> stateMap, ist |-> internalStateMap, fired |-> <<>>,
                            promisified |-> FALSE, allResults |-> <<>>,
                            invoked |-> <<>>, outcomes |-> <<>>],
                           fields, eventName)} :
        /\ r.promisified => Len(pending) < MaxPending
        /\ stateMap' = r.st
        /\ internalStateMap' = r.ist
        /\ fired' = r.fired
        /\ pending' = IF r.promisified
                      THEN Append(pending, PendingCall("validate", fields, eventName,
                                                       r.allResults, r.invoked, r.outcomes))
                      ELSE pending
        /\ ret' = CallRet("validate", fields, eventName,
                          IF r.promisified THEN "promise" ELSE "boolean",
                          ~r.promisified /\ everyTruthy(ItemValues(r.allResults)),
                          r.invoked, r.outcomes)
        /\ UNCHANGED <<valuesMap, valuesKeys, validationMap, options, forms, formCtrlHolder>>

\* mutant of SettleRule: the messages are recomputed when each promise settles
SettleRuleEach(c, i, j) ==
    LET call   == pending[c]
        item   == call.items[i]
        e      == item.results[j]
        field  == item.field
        passed == IF e.rejects THEN FALSE ELSE e.passed
        ifs    == internalStateMap[field][1]
        pp     == ProcessPassed(ifs.requiredMessage,
                                IF item.rmLive THEN ifs.rulesMessages[1] ELSE EmptyRulesMessages,
                                e.rule, e.slot, passed)
        ist1   == IF ~item.live THEN internalStateMap
                  ELSE IF e.slot = RequiredSlot
                  THEN [internalStateMap EXCEPT ![field] = <<[ifs EXCEPT !.requiredMessage = pp.req]>>]
                  ELSE IF item.rmLive
                  THEN [internalStateMap EXCEPT ![field] = <<[ifs EXCEPT !.rulesMessages = <<pp.arr>>]>>]
                  ELSE internalStateMap
        results1 == [item.results EXCEPT ![j] = [e EXCEPT !.done = TRUE, !.value = passed]]
        allDone  == \A k \in 1 .. Len(results1) : results1[k].done
        upd    == IF item.update
                  THEN UpdateFieldMessages(stateMap, ist1, field, "full")
                  ELSE [st |-> stateMap, ist |-> ist1, fired |-> <<>>]
        item1  == [item EXCEPT !.results = results1, !.done = allDone,
                               !.value = allDone /\ everyTruthy(ResultValues(results1))]
        items1 == [call.items EXCEPT ![i] = item1]
        resolved == \A k \in 1 .. Len(items1) : items1[k].done
    IN /\ stateMap' = upd.st
       /\ internalStateMap' = upd.ist
       /\ fired' = Passing(upd.fired, call.onChangeOptions)
       /\ pending' = IF resolved THEN RemoveAt(pending, c)
                     ELSE [pending EXCEPT ![c] = [call EXCEPT !.items = items1]]
       /\ ret' = IF resolved
                 THEN CallRet(call.op, call.fields, call.eventName, "resolved",
                              everyTruthy(ItemValues(items1)), call.invoked, call.outcomes)
                 ELSE CallRet("settle", <<>>, call.eventName, "void", TRUE, <<>>, <<>>)
       /\ UNCHANGED <<valuesMap, valuesKeys, validationMap, options, forms, formCtrlHolder>>

\* mutant of SettleRule: the outcome is written into the internal state the map
\* holds when the promise settles
SettleRuleLookingUp(c, i, j) ==
    LET call   == pending[c]
        item   == call.items[i]
        e      == item.results[j]
        field  == item.field
        passed == IF e.rejects THEN FALSE ELSE e.passed
        ifs    == EnsureInternalFieldState(internalStateMap, field)[field][1]
        pp     == ProcessPassed(ifs.requiredMessage,
                                IF item.rmLive THEN ifs.rulesMessages[1] ELSE EmptyRulesMessages,
                                e.rule, e.slot, passed)
        ist1   == IF e.slot = RequiredSlot
                  THEN [internalStateMap EXCEPT ![field] = <<[ifs EXCEPT !.requiredMessage = pp.req]>>]
                  ELSE IF item.rmLive
                  THEN [internalStateMap EXCEPT ![field] = <<[ifs EXCEPT !.rulesMessages = <<pp.arr>>]>>]
                  ELSE internalStateMap
        results1 == [item.results EXCEPT ![j] = [e EXCEPT !.done = TRUE, !.value = passed]]
        allDone  == \A k \in 1 .. Len(results1) : results1[k].done
        upd    == IF allDone /\ item.update
                  THEN UpdateFieldMessages(stateMap, ist1, field, "full")
                  ELSE [st |-> stateMap, ist |-> ist1, fired |-> <<>>]
        item1  == [item EXCEPT !.results = results1, !.done = allDone,
                               !.value = allDone /\ everyTruthy(ResultValues(results1))]
        items1 == [call.items EXCEPT ![i] = item1]
        resolved == \A k \in 1 .. Len(items1) : items1[k].done
    IN /\ stateMap' = upd.st
       /\ internalStateMap' = upd.ist
       /\ fired' = Passing(upd.fired, call.onChangeOptions)
       /\ pending' = IF resolved THEN RemoveAt(pending, c)
                     ELSE [pending EXCEPT ![c] = [call EXCEPT !.items = items1]]
       /\ ret' = IF resolved
                 THEN CallRet(call.op, call.fields, call.eventName, "resolved",
                              everyTruthy(ItemValues(items1)), call.invoked, call.outcomes)
                 ELSE CallRet("settle", <<>>, call.eventName, "void", TRUE, <<>>, <<>>)
       /\ UNCHANGED <<valuesMap, valuesKeys, validationMap, options, forms, formCtrlHolder>>

\* One promise returned by a validate function settles: the callbacks
\* .catch(() => false).then(processPassed) run on what validateField captured;
\* when it was the last promise of its validateField, processBools runs, and
\* when that was the last promise of the call, the promise of the call resolves.
SettleRule(c, i, j) ==
    LET call   == pending[c]
        item   == call.items[i]
        e      == item.results[j]
        field  == item.field
        passed == IF e.rejects THEN FALSE ELSE e.passed
        ifs    == internalStateMap[field][1]
        pp     == ProcessPassed(ifs.requiredMessage,
                                IF item.rmLive THEN ifs.rulesMessages[1] ELSE EmptyRulesMessages,
                                e.rule, e.slot, passed)
        \* a write into an object that is no longer in the map is lost
        ist1   == IF ~item.live THEN internalStateMap
                  ELSE IF e.slot = RequiredSlot
                  THEN [internalStateMap EXCEPT ![field] = <<[ifs EXCEPT !.requiredMessage = pp.req]>>]
                  ELSE IF item.rmLive
                  THEN [internalStateMap EXCEPT ![field] = <<[ifs EXCEPT !.rulesMessages = <<pp.arr>>]>>]
                  ELSE internalStateMap
        results1 == [item.results EXCEPT ![j] = [e EXCEPT !.done = TRUE, !.value = passed]]
        allDone  == \A k \in 1 .. Len(results1) : results1[k].done
        upd    == IF allDone /\ item.update
                  THEN UpdateFieldMessages(stateMap, ist1, field, "full")
                  ELSE [st |-> stateMap, ist |-> ist1, fired |-> <<>>]
        item1  == [item EXCEPT !.results = results1, !.done = allDone,
                               !.value = allDone /\ everyTruthy(ResultValues(results1))]
        items1 == [call.items EXCEPT ![i] = item1]
        resolved == \A k \in 1 .. Len(items1) : items1[k].done
    IN /\ stateMap' = upd.st
       /\ internalStateMap' = upd.ist
       /\ fired' = Passing(upd.fired, call.onChangeOptions)
       /\ pending' = IF resolved THEN RemoveAt(pending, c)
                     ELSE [pending EXCEPT ![c] = [call EXCEPT !.items = items1]]
       /\ ret' = IF resolved
                 THEN CallRet(call.op, call.fields, call.eventName, "resolved",
                              everyTruthy(ItemValues(items1)), call.invoked, call.outcomes)
                 ELSE CallRet("settle", <<>>, call.eventName, "void", TRUE, <<>>, <<>>)
       /\ UNCHANGED <<valuesMap, valuesKeys, validationMap, options, forms, formCtrlHolder>>

Settle ==
    \E c \in 1 .. Len(pending) :
      \E i \in 1 .. Len(pending[c].items) :
        \E j \in 1 .. Len(pending[c].items[i].results) :
          /\ pending[c].items[i].promise
          /\ ~pending[c].items[i].results[j].done
          /\ SettleRule(c, i, j)

\* mutant of IncrementChanged: touched follows changed whoever made the change
IncrementChangedTouching(st, field, byUser) ==
    LET st1 == EnsureFieldState(st, field)
        fs  == st1[field][1]
    IN [st1 EXCEPT ![field] = <<[fs EXCEPT !.changed = @ + 1, !.touched = @ + 1]>>]

\* mutant of IncrementChanged: a change by the user counts as touched only
IncrementChangedEither(st, field, byUser) ==
    LET st1 == EnsureFieldState(st, field)
        fs  == st1[field][1]
    IN [st1 EXCEPT ![field] = <<[fs EXCEPT !.changed = IF byUser THEN @ ELSE @ + 1,
                                           !.touched = IF byUser THEN @ + 1 ELSE @]>>]

\* incrementChanged(field, byUser)
IncrementChanged(st, field, byUser) ==
    LET st1 == EnsureFieldState(st, field)
        fs  == st1[field][1]
    IN [st1 EXCEPT ![field] = <<[fs EXCEPT !.changed = @ + 1,
                                           !.touched = IF byUser THEN @ + 1 ELSE @]>>]

\* incrementBlurred(field)
IncrementBlurred(st, field) ==
    LET st1 == EnsureFieldState(st, field)
    IN [st1 EXCEPT ![field] = <<[st1[field][1] EXCEPT !.blurred = @ + 1]>>]

\* FormValuesSetterOptions; given = FALSE is a call without options
\* extra holds the other keys of the options object, as a sequence of entries
SetterOptions(byUser, skipChangeUpdate, skipValidation) ==
    [given |-> TRUE, byUser |-> byUser, skipChangeUpdate |-> skipChangeUpdate,
     skipValidation |-> skipValidation, extra |-> <<>>]
NoSetterOptions ==
    [given |-> FALSE, byUser |-> FALSE, skipChangeUpdate |-> FALSE, skipValidation |-> FALSE,
     extra |-> <<>>]

\* mutant of ExtractOnChangeOptions: the options are handed on as they came
ExtractOnChangeOptionsWhole(o) ==
    IF ~o.given THEN Null
    ELSE << <<Entry("byUser", IF o.byUser THEN "true" ELSE "false"),
              Entry("skipChangeUpdate", IF o.skipChangeUpdate THEN "true" ELSE "false"),
              Entry("skipValidation", IF o.skipValidation THEN "true" ELSE "false")>>
            \o o.extra >>

\* _extractOnChangeOptions(options), and the same destructuring in
\* _processValueChange: undefined without options, else the other keys
ExtractOnChangeOptions(o) == IF ~o.given THEN Null ELSE <<o.extra>>

\* the counters stay within the bound of the model
CanIncrement(field) == GetFieldState(field).changed < MaxCount

\* what a validate function can read of the form while it runs: getValues()
\* and the counters of getFieldState
CountersOf(st) ==
    [f \in Fields |-> IF st[f] = Null THEN [changed |-> 0, touched |-> 0]
                      ELSE [changed |-> st[f][1].changed, touched |-> st[f][1].touched]]
Snapshots(invoked, st, vm) ==
    [k \in 1 .. Len(invoked) |-> [values |-> GetValues(vm), counters |-> CountersOf(st)]]
CanBlur(field) == GetFieldState(field).blurred < MaxCount

\* setValue(field, value, options): _setValue, then _processValueChange
setValue(field, value, o) ==
    LET prevValue == GetValue(valuesMap, field)
        vm1 == [valuesMap EXCEPT ![field] = <<value>>]
        st1 == IF o.skipChangeUpdate THEN stateMap
               ELSE IncrementChanged(stateMap, field, o.byUser)
        eventName == IF o.byUser THEN "onTouch" ELSE "onChange"
    IN /\ ~o.skipChangeUpdate => CanIncrement(field)
       /\ valuesMap' = vm1
       /\ valuesKeys' = KeysAfterSet(valuesKeys, field)
       /\ IF o.skipValidation
          THEN /\ stateMap' = st1
               /\ fired' = Passing(Seen(OnValueChange(field, value, prevValue), vm1),
                                   ExtractOnChangeOptions(o))
               /\ ret' = CallRet("setValue", <<>>, "-", "void", TRUE, <<>>, <<>>)
               /\ UNCHANGED <<internalStateMap, pending>>
          ELSE \E vf \in {ValidateField(st1, internalStateMap, vm1, validationMap,
                                        options, field, eventName)} :
                   /\ stateMap' = vf.st
                   /\ internalStateMap' = vf.ist
                   /\ fired' = Passing(Seen(OnValueChange(field, value, prevValue), vm1)
                                       \o vf.fired, ExtractOnChangeOptions(o))
                   /\ AfterValidateSaw("setValue", eventName, "void", vf,
                                       ExtractOnChangeOptions(o),
                                       Snapshots(vf.invoked, st1, vm1))
       /\ UNCHANGED <<validationMap, options, forms, formCtrlHolder>>

\* handleInput(field, {target: {value}}): _handleInput on an element whose value is value
handleInput(field, value) ==
    LET prevValue == GetValue(valuesMap, field)
        vm1 == [valuesMap EXCEPT ![field] = <<value>>]
        st1 == IncrementChanged(stateMap, field, TRUE)
    IN /\ CanIncrement(field)
       /\ valuesMap' = vm1
       /\ valuesKeys' = KeysAfterSet(valuesKeys, field)
       /\ \E vf \in {ValidateField(st1, internalStateMap, vm1, validationMap, options,
                                    field, "onTouch")} :
              /\ stateMap' = vf.st
              /\ internalStateMap' = vf.ist
              /\ fired' = Seen(OnValueChange(field, value, prevValue), vm1) \o vf.fired
              /\ AfterValidate("handleInput", "onTouch", "void", vf)
       /\ UNCHANGED <<validationMap, options, forms, formCtrlHolder>>

\* what handleInput can be given as event, and an event can hold as target. kind
\* is what JavaScript makes of the value: "undefined", "null", "string" (a
\* non-empty string, truthy and not an object) or "object" (not an array)
EventOf(kind, target) == [kind |-> kind, target |-> target]
TargetOf(kind, element) == [kind |-> kind, element |-> element]

\* the properties of an element getElementValue reads
Element(type, checked, value) == [type |-> type, checked |-> checked, value |-> value]

Truthy(x) == x.kind \notin {"undefined", "null"}
TypeofObject(x) == x.kind \in {"null", "object"}

\* getElementValue(element) for an element that is not a multiple select; the
\* booleans of a checkbox are the values "true" and "false"
GetElementValue(el) ==
    IF el.type = "checkbox" THEN (IF el.checked THEN "true" ELSE "false")
    ELSE IF el.type = "radio" THEN (IF el.checked THEN el.value ELSE VUndef)
    ELSE el.value

\* _getFieldElement(field): the forms of the model register no element
GetFieldElement(field) == Null

\* mutant of InputElement: event.target is taken as it is
InputElementUntested(field, event) ==
    IF Truthy(event) /\ TypeofObject(event) /\ Truthy(event.target)
    THEN <<event.target.element>>
    ELSE GetFieldElement(field)

\* the element handleInput(field, event) works on, Null when it has none
InputElement(field, event) ==
    IF /\ Truthy(event) /\ TypeofObject(event)
       /\ Truthy(event.target) /\ TypeofObject(event.target)
    THEN <<event.target.element>>
    ELSE GetFieldElement(field)

\* handleInput(field, event)
handleInputEvent(field, event) ==
    \E element \in {InputElement(field, event)} :
        IF element = Null
        THEN /\ fired' = <<>>
             /\ ret' = CallRet("handleInput", <<>>, "-", "void", TRUE, <<>>, <<>>)
             /\ UNCHANGED <<valuesMap, valuesKeys, stateMap, internalStateMap, validationMap,
                            options, pending, forms, formCtrlHolder>>
        ELSE handleInput(field, GetElementValue(element[1]))

\* mutant of ProcessValueChange: the field is validated before its counters move
ProcessValueChangeValidateFirst(acc, field, o, vm) ==
    LET eventName == IF o.byUser THEN "onTouch" ELSE "onChange"
        Count(st) == IF o.skipChangeUpdate THEN st ELSE IncrementChanged(st, field, o.byUser)
        Collect(vf) ==
            [st |-> Count(vf.st), ist |-> vf.ist,
             fired |-> acc.fired \o Passing(vf.fired, ExtractOnChangeOptions(o)),
             calls |-> IF vf.item.promise
                       THEN Append(acc.calls,
                                   [PendingCall(acc.op, <<field>>, eventName,
                                                <<vf.item>>, vf.invoked, vf.outcomes)
                                    EXCEPT !.onChangeOptions = ExtractOnChangeOptions(o)])
                       ELSE acc.calls,
             invoked |-> acc.invoked \o vf.invoked,
             outcomes |-> acc.outcomes \o vf.outcomes, op |-> acc.op,
             saw |-> acc.saw \o Snapshots(vf.invoked, acc.st, vm)]
    IN IF o.skipValidation THEN [acc EXCEPT !.st = Count(acc.st)]
       ELSE Collect(ValidateField(acc.st, acc.ist, vm, validationMap, options, field, eventName))

\* _processValueChange(field, options) on the maps an operation is building:
\* calls collects the validateField promises nobody waits for
ProcessValueChange(acc, field, o, vm) ==
    LET st1 == IF o.skipChangeUpdate THEN acc.st
               ELSE IncrementChanged(acc.st, field, o.byUser)
        eventName == IF o.byUser THEN "onTouch" ELSE "onChange"
        Collect(vf) ==
            [st |-> vf.st, ist |-> vf.ist,
             fired |-> acc.fired \o Passing(vf.fired, ExtractOnChangeOptions(o)),
             calls |-> IF vf.item.promise
                       THEN Append(acc.calls,
                                   [PendingCall(acc.op, <<field>>, eventName,
                                                <<vf.item>>, vf.invoked, vf.outcomes)
                                    EXCEPT !.onChangeOptions = ExtractOnChangeOptions(o)])
                       ELSE acc.calls,
             invoked |-> acc.invoked \o vf.invoked,
             outcomes |-> acc.outcomes \o vf.outcomes, op |-> acc.op,
             saw |-> acc.saw \o Snapshots(vf.invoked, st1, vm)]
    IN IF o.skipValidation THEN [acc EXCEPT !.st = st1]
       ELSE Collect(ValidateField(st1, acc.ist, vm, validationMap, options, field, eventName))

\* _processValuesChange(fields, options)
RECURSIVE ProcessValuesChange(_, _, _, _)
ProcessValuesChange(acc, fields, o, vm) ==
    IF fields = <<>> THEN acc
    ELSE ProcessValuesChange(ProcessValueChange(acc, Head(fields), o, vm), Tail(fields), o, vm)

\* the counters of every field of the sequence stay within the bound of the model
RECURSIVE CanIncrementAll(_)
CanIncrementAll(fields) ==
    IF fields = <<>> THEN TRUE
    ELSE CanIncrement(Head(fields)) /\ CanIncrementAll(Tail(fields))

\* what setValues, clearValues and resetValues share: w is what _setValues,
\* _clearValues or _resetValues did, then _processValuesChange(w.fields, options)
ChangeValues(op, w, o) ==
    /\ ~o.skipChangeUpdate => CanIncrementAll(w.fields)
    /\ \E r \in {ProcessValuesChange([st |-> stateMap, ist |-> internalStateMap,
                                       fired |-> Passing(w.fired, ExtractOnChangeOptions(o)),
                                       calls |-> <<>>,
                                       invoked |-> <<>>, outcomes |-> <<>>, op |-> op,
                                       saw |-> <<>>],
                                      w.fields, o, w.vm)} :
           /\ Len(pending) + Len(r.calls) <= MaxPending
           /\ valuesMap' = w.vm
           /\ valuesKeys' = w.keys
           /\ stateMap' = r.st
           /\ internalStateMap' = r.ist
           /\ fired' = r.fired
           /\ pending' = pending \o r.calls
           /\ ret' = [CallRet(op, w.fields, IF o.byUser THEN "onTouch" ELSE "onChange",
                              "void", TRUE, r.invoked, r.outcomes)
                      EXCEPT !.saw = r.saw]
    /\ UNCHANGED <<validationMap, options, forms, formCtrlHolder>>

\* setValues(values, options)
setValues(values, o) ==
    ChangeValues("setValues", SetValues(valuesMap, valuesKeys, values), o)

\* clearValues(options)
clearValues(o) ==
    ChangeValues("clearValues", ClearValues(valuesMap, valuesKeys), o)

\* resetValues(newValues, options): newValues = Null is a call without newValues
resetValues(newValues, o) ==
    ChangeValues("resetValues",
                 ResetValues(valuesMap, valuesKeys,
                             IF newValues = Null THEN options.defaultValues ELSE newValues),
                 o)

\* handleBlur(field)
handleBlur(field) ==
    /\ CanBlur(field)
    /\ \E vf \in {ValidateField(IncrementBlurred(stateMap, field), internalStateMap,
                                 valuesMap, validationMap, options, field, "onBlur")} :
           /\ stateMap' = vf.st
           /\ internalStateMap' = vf.ist
           /\ fired' = vf.fired
           /\ AfterValidate("handleBlur", "onBlur", "void", vf)
    /\ UNCHANGED <<valuesMap, valuesKeys, validationMap, options, forms, formCtrlHolder>>

\* the operations below return nothing the model records
Plain(op) == CallRet(op, <<>>, "-", "void", TRUE, <<>>, <<>>)

\* incrementChanged(field, byUser) and incrementBlurred(field) as calls of the
\* user of the form
incrementChanged(field, byUser) ==
    /\ CanIncrement(field)
    /\ stateMap' = IncrementChanged(stateMap, field, byUser)
    /\ fired' = <<>>
    /\ ret' = Plain("incrementChanged")
    /\ UNCHANGED <<internalStateMap, pending, valuesMap, valuesKeys, validationMap, options,
                   forms, formCtrlHolder>>

incrementBlurred(field) ==
    /\ CanBlur(field)
    /\ stateMap' = IncrementBlurred(stateMap, field)
    /\ fired' = <<>>
    /\ ret' = Plain("incrementBlurred")
    /\ UNCHANGED <<internalStateMap, pending, valuesMap, valuesKeys, validationMap, options,
                   forms, formCtrlHolder>>

\* commits the result of _updateFieldMessages
Commit(upd, op) ==
    /\ stateMap' = upd.st
    /\ internalStateMap' = upd.ist
    /\ fired' = upd.fired
    /\ ret' = Plain(op)
    /\ UNCHANGED <<valuesMap, valuesKeys, validationMap, options, forms, formCtrlHolder>>

\* an operation that returned early
Skip(op) ==
    /\ fired' = <<>>
    /\ ret' = Plain(op)
    /\ UNCHANGED <<valuesMap, valuesKeys, stateMap, internalStateMap, validationMap, options, pending, forms, formCtrlHolder>>

\* forceFieldError(field, error)
forceFieldError(field, error) ==
    LET ist1 == EnsureInternalFieldState(internalStateMap, field)
        ist2 == [ist1 EXCEPT ![field] = <<[ist1[field][1] EXCEPT !.errorOverride = <<error>>]>>]
        st1  == EnsureFieldState(stateMap, field)
        prevError == st1[field][1].error
    IN /\ internalStateMap' = ist2
       /\ stateMap' = [st1 EXCEPT ![field] = <<[st1[field][1] EXCEPT !.error = error]>>]
       /\ fired' = OnErrorChange(field, error, prevError)
       /\ ret' = Plain("forceFieldError")
       /\ UNCHANGED <<valuesMap, valuesKeys, validationMap, options, pending, forms, formCtrlHolder>>

\* forceFieldWarning(field, warning)
forceFieldWarning(field, warning) ==
    LET ist1 == EnsureInternalFieldState(internalStateMap, field)
        ist2 == [ist1 EXCEPT ![field] = <<[ist1[field][1] EXCEPT !.warningOverride = <<warning>>]>>]
        st1  == EnsureFieldState(stateMap, field)
        prevWarning == st1[field][1].warning
    IN /\ internalStateMap' = ist2
       /\ stateMap' = [st1 EXCEPT ![field] = <<[st1[field][1] EXCEPT !.warning = warning]>>]
       /\ fired' = OnWarningChange(field, warning, prevWarning)
       /\ ret' = Plain("forceFieldWarning")
       /\ UNCHANGED <<valuesMap, valuesKeys, validationMap, options, pending, forms, formCtrlHolder>>

\* mutant of unforceFieldError: the messages are rebuilt with the flag
unforceFieldErrorRebuilding(field) ==
    IF internalStateMap[field] = Null THEN Skip("unforceFieldError")
    ELSE /\ Commit(UpdateFieldMessages(stateMap,
                       [internalStateMap EXCEPT ![field] = <<[@[1] EXCEPT !.errorOverride = Null]>>],
                       field, "full"), "unforceFieldError")
         /\ UNCHANGED pending

\* unforceFieldError(field)
unforceFieldError(field) ==
    IF internalStateMap[field] = Null THEN Skip("unforceFieldError")
    ELSE /\ Commit(UpdateFieldMessages(stateMap,
                       [internalStateMap EXCEPT ![field] = <<[@[1] EXCEPT !.errorOverride = Null]>>],
                       field, "onlyError"), "unforceFieldError")
         /\ UNCHANGED pending

\* unforceFieldWarning(field)
unforceFieldWarning(field) ==
    IF internalStateMap[field] = Null THEN Skip("unforceFieldWarning")
    ELSE /\ Commit(UpdateFieldMessages(stateMap,
                       [internalStateMap EXCEPT ![field] = <<[@[1] EXCEPT !.warningOverride = Null]>>],
                       field, "onlyWarning"), "unforceFieldWarning")
         /\ UNCHANGED pending

\* mutant of clearFieldMessages: the overrides are dropped with the messages
clearFieldMessagesAndForce(field) ==
    IF internalStateMap[field] = Null THEN Skip("clearFieldMessages")
    ELSE /\ Commit(UpdateFieldMessages(stateMap,
                       [internalStateMap EXCEPT ![field] = <<EmptyInternalFieldState>>],
                       field, "full"), "clearFieldMessages")
         /\ pending' = Detach(pending, {field}, FALSE)

\* clearFieldMessages(field)
clearFieldMessages(field) ==
    IF internalStateMap[field] = Null THEN Skip("clearFieldMessages")
    ELSE /\ Commit(UpdateFieldMessages(stateMap,
                       [internalStateMap EXCEPT ![field] = <<[@[1] EXCEPT !.requiredMessage = Null,
                                                                         !.rulesMessages = Null,
                                                                         !.customMessages = Null]>>],
                       field, "full"), "clearFieldMessages")
         /\ pending' = Detach(pending, {field}, FALSE)

\* mutant of clearFieldValidationMessages: the custom messages go as well
clearFieldValidationMessagesAndCustom(field) ==
    IF internalStateMap[field] = Null THEN Skip("clearFieldValidationMessages")
    ELSE /\ Commit(UpdateFieldMessages(stateMap,
                       [internalStateMap EXCEPT ![field] = <<[@[1] EXCEPT !.requiredMessage = Null,
                                                                         !.rulesMessages = Null,
                                                                         !.customMessages = Null]>>],
                       field, "full"), "clearFieldValidationMessages")
         /\ pending' = Detach(pending, {field}, FALSE)

\* clearFieldValidationMessages(field)
clearFieldValidationMessages(field) ==
    IF internalStateMap[field] = Null THEN Skip("clearFieldValidationMessages")
    ELSE /\ Commit(UpdateFieldMessages(stateMap,
                       [internalStateMap EXCEPT ![field] = <<[@[1] EXCEPT !.requiredMessage = Null,
                                                                         !.rulesMessages = Null]>>],
                       field, "full"), "clearFieldValidationMessages")
         /\ pending' = Detach(pending, {field}, FALSE)

\* mutant of clearFieldCustomMessages: the messages are not recomputed
clearFieldCustomMessagesOnly(field) ==
    IF internalStateMap[field] = Null THEN Skip("clearFieldCustomMessages")
    ELSE /\ internalStateMap' =
                [internalStateMap EXCEPT ![field] = <<[@[1] EXCEPT !.customMessages = Null]>>]
         /\ fired' = <<>>
         /\ ret' = Plain("clearFieldCustomMessages")
         /\ UNCHANGED <<valuesMap, valuesKeys, stateMap, validationMap, options, pending,
                        forms, formCtrlHolder>>

\* clearFieldCustomMessages(field)
clearFieldCustomMessages(field) ==
    IF internalStateMap[field] = Null THEN Skip("clearFieldCustomMessages")
    ELSE /\ Commit(UpdateFieldMessages(stateMap,
                       [internalStateMap EXCEPT ![field] = <<[@[1] EXCEPT !.customMessages = Null]>>],
                       field, "full"), "clearFieldCustomMessages")
         /\ UNCHANGED pending

\* clearFieldValidationMessages(field) as the operations on the validation
\* settings call it: the maps, the hooks and the calls in flight after it
ClearFieldValidationMessages(field) ==
    IF internalStateMap[field] = Null
    THEN [st |-> stateMap, ist |-> internalStateMap, fired |-> <<>>, pend |-> pending]
    ELSE LET upd == UpdateFieldMessages(stateMap,
                        [internalStateMap EXCEPT ![field] = <<[@[1] EXCEPT !.requiredMessage = Null,
                                                                          !.rulesMessages = Null]>>],
                        field, "full")
         IN [st |-> upd.st, ist |-> upd.ist, fired |-> upd.fired,
             pend |-> Detach(pending, {field}, FALSE)]

\* what the operations on the settings of one field share: the settings are
\* stored, then the validation messages of the field are cleared
ChangeFieldValidation(op, field, settings, kind, value) ==
    \E c \in {ClearFieldValidationMessages(field)} :
        /\ validationMap' = [validationMap EXCEPT ![field] = settings]
        /\ stateMap' = c.st
        /\ internalStateMap' = c.ist
        /\ fired' = c.fired
        /\ pending' = c.pend
        /\ ret' = CallRet(op, <<>>, "-", kind, value, <<>>, <<>>)
        /\ UNCHANGED <<valuesMap, valuesKeys, options, forms, formCtrlHolder>>

\* the settings _ensureFieldValidation returns: those of the field, or {}
EnsureFieldValidation(field) ==
    IF Unset(validationMap[field]) THEN Validation(UNDEF, NotRequired, NoFn, <<>>)
    ELSE validationMap[field][1]

\* Object.assign(target, partial): partial is a record of some of the settings
AssignValidation(target, partial) ==
    [k \in DOMAIN target |-> IF k \in DOMAIN partial THEN partial[k] ELSE target[k]]

\* addFieldValidationRules(field, rules): no message is dropped
addFieldValidationRules(field, rules) ==
    LET fv == EnsureFieldValidation(field)
    IN /\ Len(fv.rules) + Len(rules) <= MaxRules
       /\ validationMap' = [validationMap EXCEPT ![field] = <<[fv EXCEPT !.rules = @ \o rules]>>]
       /\ fired' = <<>>
       /\ ret' = Plain("addFieldValidationRules")
       /\ UNCHANGED <<valuesMap, valuesKeys, stateMap, internalStateMap, options, pending, forms, formCtrlHolder>>

\* clearFieldValidation(field); returns whether there were settings
clearFieldValidation(field) ==
    ChangeFieldValidation("clearFieldValidation", field, Null,
                          "boolean", validationMap[field] # Null)

\* setFieldValidation(field, partialFieldValidation)
setFieldValidation(field, partial) ==
    ChangeFieldValidation("setFieldValidation", field,
                          <<AssignValidation(EnsureFieldValidation(field), partial)>>,
                          "void", TRUE)

\* resetFieldValidation(field, fieldValidation)
resetFieldValidation(field, fieldValidation) ==
    ChangeFieldValidation("resetFieldValidation", field, <<fieldValidation>>, "void", TRUE)

\* the orders in which a Map can hand out these keys: the model does not record
\* the order of insertion, so every order is taken
KeyOrders(keys) ==
    {q \in [1 .. Cardinality(keys) -> keys] :
        \A i, j \in 1 .. Cardinality(keys) : i # j => q[i] # q[j]}

\* clearValidationMessages(fields) with the fields given: the validation
\* messages of each field are cleared in turn
RECURSIVE ClearValidationMessages(_, _, _, _)
ClearValidationMessages(st, ist, pend, fields) ==
    IF fields = <<>> THEN [st |-> st, ist |-> ist, fired |-> <<>>, pend |-> pend]
    ELSE LET f == Head(fields)
             Rest(one) ==
                 LET r == ClearValidationMessages(one.st, one.ist, one.pend, Tail(fields))
                 IN [r EXCEPT !.fired = one.fired \o @]
         IN IF ist[f] = Null
            THEN Rest([st |-> st, ist |-> ist, fired |-> <<>>, pend |-> pend])
            ELSE LET upd == UpdateFieldMessages(st,
                                [ist EXCEPT ![f] = <<[@[1] EXCEPT !.requiredMessage = Null,
                                                                 !.rulesMessages = Null]>>],
                                f, "full")
                 IN Rest([st |-> upd.st, ist |-> upd.ist, fired |-> upd.fired,
                          pend |-> Detach(pend, {f}, FALSE)])

\* what the operations on the settings of the form share: the settings are
\* stored, then the validation messages of the fields are cleared
ChangeValidation(op, settings, fields, kind, value) ==
    \E c \in {ClearValidationMessages(stateMap, internalStateMap, pending, fields)} :
        /\ validationMap' = settings
        /\ stateMap' = c.st
        /\ internalStateMap' = c.ist
        /\ fired' = c.fired
        /\ pending' = c.pend
        /\ ret' = CallRet(op, <<>>, "-", kind, value, <<>>, <<>>)
        /\ UNCHANGED <<valuesMap, valuesKeys, options, forms, formCtrlHolder>>

\* a validation object is a sequence of entries in for..in order; the value of
\* an entry is <<settings>>, or Null when the key holds undefined
DefinedEntries(v) == SelectSeq(v, LAMBDA e : e.value # Null)
EntryOf(v, f) == v[CHOOSE i \in 1 .. Len(v) : v[i].field = f]

\* this._validationMap.keys() as a set
ValidationKeySet == {f \in Fields : validationMap[f] # Null}

\* clearValidation(); returns the fields that were keys of _validationMap
clearValidation ==
    \E fields \in KeyOrders(ValidationKeySet) :
        ChangeValidation("clearValidation", NoValidation, fields, "fields", fields)

\* mutant of setValidation: the messages are left as they are
setValidationKeepingMessages(v) ==
    ChangeValidation("setValidation",
                     [f \in Fields |-> IF HasOwn(DefinedEntries(v), f)
                                       THEN EntryOf(v, f).value ELSE validationMap[f]],
                     <<>>, "void", TRUE)

\* setValidation(someFieldsValidation): entries without settings are skipped
setValidation(v) ==
    ChangeValidation("setValidation",
                     [f \in Fields |-> IF HasOwn(DefinedEntries(v), f)
                                       THEN EntryOf(v, f).value ELSE validationMap[f]],
                     ObjectKeys(DefinedEntries(v)), "void", TRUE)

\* mutant of resetValidation: the settings of the other fields stay
resetValidationKeepingOthers(v) ==
    \E fields \in KeyOrders(ValidationKeySet) :
        \E cleared \in KeyOrders({f \in Fields : internalStateMap[f] # Null}) :
            ChangeValidation("resetValidation",
                             [f \in Fields |-> IF ~HasOwn(v, f) THEN validationMap[f]
                                               ELSE IF EntryOf(v, f).value = Null
                                               THEN UndefinedEntry
                                               ELSE EntryOf(v, f).value],
                             cleared, "fields", fields)

\* resetValidation(allFieldsValidation): every key of the argument is set, the
\* validation messages of every field of _internalStateMap are cleared, and the
\* keys _validationMap had are returned
resetValidation(v) ==
    \E fields \in KeyOrders(ValidationKeySet) :
        \E cleared \in KeyOrders({f \in Fields : internalStateMap[f] # Null}) :
            ChangeValidation("resetValidation",
                             [f \in Fields |-> IF ~HasOwn(v, f) THEN Null
                                               ELSE IF EntryOf(v, f).value = Null THEN UndefinedEntry
                                               ELSE EntryOf(v, f).value],
                             cleared, "fields", fields)

\* the custom messages of a field as a sequence (null reads as none)
CustomOf(ist, field) ==
    IF ist[field] = Null \/ ist[field][1].customMessages = Null THEN <<>>
    ELSE ist[field][1].customMessages[1]

\* addFieldCustomMessages(field, messages)
addFieldCustomMessages(field, messages) ==
    LET ist1 == EnsureInternalFieldState(internalStateMap, field)
        ist2 == [ist1 EXCEPT ![field] =
                    <<[ist1[field][1] EXCEPT !.customMessages = <<CustomOf(ist1, field) \o messages>>]>>]
    IN /\ Len(CustomOf(ist1, field)) + Len(messages) <= MaxCustom
       /\ Commit(UpdateFieldMessages(stateMap, ist2, field, "full"), "addFieldCustomMessages")
       /\ UNCHANGED pending

\* resetFieldCustomMessages(field, messages)
resetFieldCustomMessages(field, messages) ==
    LET ist1 == EnsureInternalFieldState(internalStateMap, field)
        ist2 == [ist1 EXCEPT ![field] = <<[ist1[field][1] EXCEPT !.customMessages = <<messages>>]>>]
    IN /\ Len(messages) <= MaxCustom
       /\ Commit(UpdateFieldMessages(stateMap, ist2, field, "full"), "resetFieldCustomMessages")
       /\ UNCHANGED pending

\* getFieldState(field): the entry is created when there is none; the state
\* returned is recorded in ret.value
getFieldState(field) ==
    /\ stateMap' = EnsureFieldState(stateMap, field)
    /\ fired' = <<>>
    /\ ret' = CallRet("getFieldState", <<field>>, "-", "state", GetFieldState(field), <<>>, <<>>)
    /\ UNCHANGED <<valuesMap, valuesKeys, internalStateMap, validationMap, options, pending, forms, formCtrlHolder>>

\* mutant of clearFieldState: the internal state of the field stays
clearFieldStateKeepingInternal(field) ==
    LET prev == stateMap[field]
    IN /\ stateMap' = [stateMap EXCEPT ![field] = Null]
       /\ fired' = IF prev = Null THEN <<>>
                   ELSE OnMessagesChange(field, Null, prev[1].messages, prev[1].messages = Null)
                        \o OnErrorChange(field, FALSE, prev[1].error)
                        \o OnWarningChange(field, FALSE, prev[1].warning)
       /\ ret' = CallRet("clearFieldState", <<>>, "-", "boolean", prev # Null, <<>>, <<>>)
       /\ pending' = Detach(pending, {field}, TRUE)
       /\ UNCHANGED <<valuesMap, valuesKeys, internalStateMap, validationMap, options, forms, formCtrlHolder>>

\* clearFieldState(field); the model records the boolean it returns in ret.value
clearFieldState(field) ==
    LET prev == stateMap[field]
    IN /\ internalStateMap' = [internalStateMap EXCEPT ![field] = Null]
       /\ stateMap' = [stateMap EXCEPT ![field] = Null]
       /\ fired' = IF prev = Null THEN <<>>
                   ELSE OnMessagesChange(field, Null, prev[1].messages, prev[1].messages = Null)
                        \o OnErrorChange(field, FALSE, prev[1].error)
                        \o OnWarningChange(field, FALSE, prev[1].warning)
       /\ ret' = CallRet("clearFieldState", <<>>, "-", "boolean", prev # Null, <<>>, <<>>)
       /\ pending' = Detach(pending, {field}, TRUE)
       /\ UNCHANGED <<valuesMap, valuesKeys, validationMap, options, forms, formCtrlHolder>>

\* the hooks clearState fires for the entries of _stateMap, visited in order
ClearStateHooks(order) ==
    ConcatAll([i \in 1 .. Len(order) |->
        LET prev == stateMap[order[i]][1]
        IN OnMessagesChange(order[i], Null, prev.messages, prev.messages = Null)
           \o OnErrorChange(order[i], FALSE, prev.error)
           \o OnWarningChange(order[i], FALSE, prev.warning)])

\* clearState as clear and reset call it, followed by what they do to the
\* values: w is the result of _clearValues or _resetValues
ClearStateThen(op, w) ==
    \E order \in KeyOrders({f \in Fields : stateMap[f] # Null}) :
        /\ stateMap' = [f \in Fields |-> Null]
        /\ internalStateMap' = [f \in Fields |-> Null]
        /\ valuesMap' = w.vm
        /\ valuesKeys' = w.keys
        /\ fired' = ClearStateHooks(order) \o w.fired
        /\ pending' = Detach(pending, Fields, TRUE)
        /\ ret' = Plain(op)
        /\ UNCHANGED <<validationMap, options, forms, formCtrlHolder>>

\* clearState()
clearState ==
    ClearStateThen("clearState", [vm |-> valuesMap, keys |-> valuesKeys, fired |-> <<>>])

\* mutant of clear: the values are cleared as clearValues() clears them
clearAsClearValues ==
    ChangeValues("clear", ClearValues(valuesMap, valuesKeys), NoSetterOptions)

\* clear(): clearState, then _clearValues
clear == ClearStateThen("clear", ClearValues(valuesMap, valuesKeys))

\* reset(newValues): clearState, then _resetValues; newValues = Null is a call
\* without newValues
reset(newValues) ==
    ClearStateThen("reset",
                   ResetValues(valuesMap, valuesKeys,
                               IF newValues = Null THEN options.defaultValues ELSE newValues))

\* what the operations on the store leave alone: the maps of this form
StoreCall(op, kind, value) ==
    /\ fired' = <<>>
    /\ ret' = CallRet(op, <<>>, "-", kind, value, <<>>, <<>>)
    /\ UNCHANGED <<valuesMap, valuesKeys, stateMap, internalStateMap, validationMap, options,
                   pending>>

\* new FormCtrl(id): one more instance, without values or settings, stored
\* under its id
construct(id) ==
    /\ Len(forms) < MaxForms
    /\ forms' = Append(forms, id)
    /\ formCtrlHolder' = HolderSet(formCtrlHolder, id, Len(forms) + 1)
    /\ StoreCall("new", "form", Len(forms) + 1)

\* FormCtrl.get(id)
get(id) ==
    /\ StoreCall("get", "form", HolderGet(formCtrlHolder, id))
    /\ UNCHANGED <<forms, formCtrlHolder>>

\* FormCtrl.keys() (keys names a parameter of the operators on the values)
staticKeys ==
    /\ StoreCall("keys", "ids", HolderKeys(formCtrlHolder))
    /\ UNCHANGED <<forms, formCtrlHolder>>

\* destroy() of instance form; ret.value records the instance and the boolean
destroy(form) ==
    /\ formCtrlHolder' = HolderDelete(formCtrlHolder, forms[form])
    /\ StoreCall("destroy", "boolean",
                 [form |-> form, deleted |-> HolderHas(formCtrlHolder, forms[form])])
    /\ UNCHANGED forms

\* FormCtrl.destroyAll()
destroyAll ==
    /\ formCtrlHolder' = <<>>
    /\ StoreCall("destroyAll", "void", TRUE)
    /\ UNCHANGED forms

----------------------------------------------------------------------------
(* Settings and inputs the specifications draw from *)

CustomError == Msg("c1", "error")
CustomWarning == Msg("c2", "warning")
CustomTexts == {"c1", "c2"}

\* required: true, a synchronous 'onChange' rule without a type that leaves a
\* success message when it passes, and a promise-returning warning rule that
\* leaves an info message when it passes
MixedValidation ==
    Validation(UNDEF, RequiredTrue, NoFn,
               << Rule("r0", UNDEF, "success", Fn("sync", "adult"), "onChange"),
                  Rule("r1", "warning", "info", Fn("async", "truthy"), UNDEF) >>)

\* the same settings with synchronous validate functions only
SyncValidation ==
    Validation(UNDEF, RequiredTrue, NoFn,
               << Rule("r0", UNDEF, "success", Fn("sync", "adult"), "onChange"),
                  Rule("r1", "warning", "info", Fn("sync", "truthy"), UNDEF) >>)

\* a single rule, whose validate returns a promise
AllAsyncValidation ==
    Validation(UNDEF, NotRequired, NoFn,
               << Rule("r0", UNDEF, UNDEF, Fn("async", "adult"), UNDEF) >>)

\* a rule without validate and a rule whose validate throws
BrokenValidation ==
    Validation(UNDEF, NotRequired, NoFn,
               << Rule("r0", "warning", UNDEF, NoFn, UNDEF),
                  Rule("r1", UNDEF, "info", Fn("throw", "adult"), UNDEF) >>)

\* a rule whose promise rejects, after a promise-returning rule that can pass
RejectingValidation ==
    Validation(UNDEF, NotRequired, NoFn,
               << Rule("r0", "info", UNDEF, Fn("async", "truthy"), UNDEF),
                  Rule("r1", "error", "success", Fn("reject", "adult"), UNDEF) >>)

MessageOptions == [NoOptions EXCEPT !.requiredMessage = "Required"]

MsgValues == {"0", "15", "20"}
MsgEvents == {"all", "onChange", "onBlur"}
WriteOnly == SetterOptions(FALSE, TRUE, TRUE)

----------------------------------------------------------------------------
(* SpecMsg: messages, flags and overrides of one field whose validation mixes
   synchronous and promise-returning rules *)

InitMsg == InitWith([NoValidation EXCEPT !["a"] = <<MixedValidation>>], MessageOptions)

MessageOps(f) ==
    \/ \E m \in {<<CustomError>>, <<CustomWarning>>, <<>>} : addFieldCustomMessages(f, m)
    \/ \E m \in {<<CustomWarning, CustomError>>, <<>>} : resetFieldCustomMessages(f, m)
    \/ clearFieldCustomMessages(f)
    \/ clearFieldValidationMessages(f)
    \/ clearFieldMessages(f)
    \/ clearFieldState(f)

ForceOps(f) ==
    \/ \E b \in BOOLEAN : forceFieldError(f, b)
    \/ \E b \in BOOLEAN : forceFieldWarning(f, b)
    \/ unforceFieldError(f)
    \/ unforceFieldWarning(f)

\* in this specification a validation is started only when none is in flight
NextMsg ==
    \/ \E e \in MsgEvents : pending = <<>> /\ validateField("a", e)
    \/ Settle
    \/ \E v \in MsgValues : setValue("a", v, WriteOnly)
    \/ MessageOps("a")

SpecMsg == InitMsg /\ [][NextMsg]_vars

(* SpecSync: the same operations when every validate function is synchronous *)

InitSync == InitWith([NoValidation EXCEPT !["a"] = <<SyncValidation>>], MessageOptions)

NextSync ==
    \/ \E e \in MsgEvents : validateField("a", e)
    \/ \E v \in MsgValues : setValue("a", v, WriteOnly)
    \/ MessageOps("a")
    \/ ForceOps("a")

SpecSync == InitSync /\ [][NextSync]_vars

----------------------------------------------------------------------------
(* C1, C2 *)

MessagesOf(f) == GetFieldState(f).messages

\* where a message of the catalogue comes from: 0 the required rule, i + 1 the
\* rule of index i, MaxRules + 1 a custom message
SourceRank(m) ==
    IF m.message \in CustomTexts THEN MaxRules + 1
    ELSE IF m.message = "r0" THEN 1
    ELSE IF m.message = "r1" THEN 2
    ELSE 0

IsCustom(m) == m.message \in CustomTexts

\* C1: messages of a field is null or a non-empty list in the order required
\* message, rule messages by rule index, custom messages in the order added
C1_MessagesOrdered ==
    \A f \in Fields :
        MessagesOf(f) # Null =>
            LET ms == MessagesOf(f)[1]
            IN /\ Len(ms) > 0
               /\ \A i \in 1 .. Len(ms) : \A j \in (i + 1) .. Len(ms) :
                      \/ SourceRank(ms[i]) < SourceRank(ms[j])
                      \/ IsCustom(ms[i]) /\ IsCustom(ms[j])
               /\ SelectSeq(ms, IsCustom) = CustomOf(internalStateMap, f)

\* a required message, a rule message and two custom messages are shown together
C1_Witness ==
    /\ MessagesOf("a") # Null
    /\ Len(MessagesOf("a")[1]) >= 4
    /\ SourceRank(MessagesOf("a")[1][1]) = 0
    /\ SourceRank(MessagesOf("a")[1][2]) \in {1, 2}
    /\ MessagesOf("a")[1][Len(MessagesOf("a")[1])] = CustomError

HasType(messages, type) ==
    messages # Null /\ \E i \in 1 .. Len(messages[1]) : messages[1][i].type = type

ErrorOverrideOf(f) ==
    IF internalStateMap[f] = Null THEN Null ELSE internalStateMap[f][1].errorOverride
WarningOverrideOf(f) ==
    IF internalStateMap[f] = Null THEN Null ELSE internalStateMap[f][1].warningOverride

----------------------------------------------------------------------------
(* SpecAsync: validateField and validate over two fields whose rules answer
   synchronously, by a promise, by an exception or by a rejected promise;
   validateField calls overlap the calls in flight, validate is started and
   values are written while none is in flight *)

InitAsync ==
    \/ InitWith([NoValidation EXCEPT !["a"] = <<MixedValidation>>,
                                     !["b"] = <<AllAsyncValidation>>], MessageOptions)
    \/ InitWith([NoValidation EXCEPT !["a"] = <<BrokenValidation>>,
                                     !["b"] = <<RejectingValidation>>], NoOptions)
    \/ InitWith([NoValidation EXCEPT !["a"] = <<SyncValidation>>], NoOptions)

NextAsync ==
    \/ \E e \in {"all", "onBlur"} : validateField("a", e)
    \/ validateField("b", "all")
    \/ pending = <<>> /\ validate(ValidationKeys(FieldOrder), "all")
    \/ Settle
    \/ \E f \in Fields : \E v \in MsgValues :
           pending = <<>> /\ setValue(f, v, WriteOnly)

SpecAsync == InitAsync /\ [][NextAsync]_vars

----------------------------------------------------------------------------
(* C3, C4, C5, C8 *)

\* the rule validateField evaluated for a slot of a field
RuleAt(f, slot) ==
    IF slot = RequiredSlot THEN RequiredRuleOf(validationMap[f][1], options)
    ELSE validationMap[f][1].rules[slot + 1]

\* the message stored for a slot in the Internal Message State of a field
SlotMessage(f, slot) ==
    IF internalStateMap[f] = Null THEN Null
    ELSE IF slot = RequiredSlot THEN internalStateMap[f][1].requiredMessage
    ELSE IF internalStateMap[f][1].rulesMessages = Null THEN Null
    ELSE internalStateMap[f][1].rulesMessages[1][slot]

ReturnsPromise(rule) == rule.validate.kind \in {"async", "reject"}

FailureMessage(rule) ==
    Msg(rule.message, IF rule.type # UNDEF THEN rule.type ELSE "error")

InMessages(f, m) ==
    MessagesOf(f) # Null /\ \E i \in 1 .. Len(MessagesOf(f)[1]) : MessagesOf(f)[1][i] = m

IsValidation == ret.op \in {"validateField", "validate"}

\* C3: when the promise of a validateField call has resolved, the message of
\* every failed promise-returning rule of the call is in the messages of the
\* field, and error / warning reflect it
C3_AsyncFailureShown ==
    (ret.op = "validateField" /\ ret.kind = "resolved") =>
        \A k \in 1 .. Len(ret.invoked) :
            LET f    == ret.invoked[k].field
                rule == RuleAt(f, ret.invoked[k].slot)
            IN (ReturnsPromise(rule) /\ ~ret.outcomes[k]) =>
                   /\ InMessages(f, FailureMessage(rule))
                   /\ FailureMessage(rule).type = "error" => GetFieldState(f).error
                   /\ FailureMessage(rule).type = "warning" => GetFieldState(f).warning

\* C4: the call returns a boolean when no invoked rule returned a promise and a
\* promise otherwise; the boolean returned or resolved to is the conjunction of
\* the outcomes of all invoked rules
C4_AsyncUnification ==
    IsValidation =>
        LET somePromise == \E k \in 1 .. Len(ret.invoked) :
                               ReturnsPromise(RuleAt(ret.invoked[k].field, ret.invoked[k].slot))
        IN /\ ret.kind = "boolean" => ~somePromise
           /\ ret.kind \in {"promise", "resolved"} => somePromise
           /\ ret.kind \in {"boolean", "resolved"} => ret.value = SeqAnd(ret.outcomes)

\* a promise of validate over two fields resolved to false although the last
\* invoked rule passed
C4_Witness ==
    /\ ret.op = "validate" /\ ret.kind = "resolved"
    /\ Len(ret.outcomes) >= 3
    /\ ret.outcomes[Len(ret.outcomes)]
    /\ ~ret.value

IsBroken(rule) == rule.validate.kind \in {"none", "throw", "reject"}

\* C5: a rule without validate, or whose validate throws or rejects, counts as
\* failed: the call returns false and the failure message of the rule is stored
C5_BrokenRuleFails ==
    IsValidation =>
        \A k \in 1 .. Len(ret.invoked) :
            LET f    == ret.invoked[k].field
                slot == ret.invoked[k].slot
                rule == RuleAt(f, slot)
            IN IsBroken(rule) =>
                   /\ ~ret.outcomes[k]
                   /\ ret.kind \in {"boolean", "resolved"} => ~ret.value
                   /\ (ret.kind \in {"boolean", "resolved"} \/ ~ReturnsPromise(rule)) =>
                          SlotMessage(f, slot) = <<FailureMessage(rule)>>

\* a validate over a field without validate / with a throwing validate and a
\* field with a rejecting promise has resolved
C5_Witness ==
    /\ ret.op = "validate" /\ ret.kind = "resolved"
    /\ \E k \in 1 .. Len(ret.invoked) :
           RuleAt(ret.invoked[k].field, ret.invoked[k].slot).validate.kind = "reject"
    /\ \E k \in 1 .. Len(ret.invoked) :
           RuleAt(ret.invoked[k].field, ret.invoked[k].slot).validate.kind = "throw"
    /\ \E k \in 1 .. Len(ret.invoked) :
           RuleAt(ret.invoked[k].field, ret.invoked[k].slot).validate.kind = "none"

\* C8: the message stored for an evaluated rule is its failure message when it
\* failed, its message with typeIfPassed when it passed and typeIfPassed is
\* set, and none otherwise
C8_StoredMessage ==
    IsValidation =>
        \A k \in 1 .. Len(ret.invoked) :
            LET f    == ret.invoked[k].field
                slot == ret.invoked[k].slot
                rule == RuleAt(f, slot)
            IN (ret.kind \in {"boolean", "resolved"} \/ ~ReturnsPromise(rule)) =>
                   SlotMessage(f, slot) =
                       IF ~ret.outcomes[k] THEN <<FailureMessage(rule)>>
                       ELSE IF rule.typeIfPassed # UNDEF
                            THEN <<Msg(rule.message, rule.typeIfPassed)>>
                            ELSE Null

\* a validation replaced the failure messages of a field by the success and
\* info messages of its passed rules, the required message being removed
C8_Witness ==
    /\ ret.op = "validateField" /\ ret.kind = "resolved"
    /\ fired # <<>>
    /\ fired[1].hook = "onMessagesChange"
    /\ fired[1].prevMessages # Null
    /\ fired[1].prevMessages[1][1] = Msg("Required", "error")
    /\ fired[1].messages = << <<Msg("r0", "success"), Msg("r1", "info")>> >>

----------------------------------------------------------------------------
(* SpecEvt: which rules a validation evaluates. The constructor is given one
   of the combinations of a rule eventName, a field eventName and the
   validationEventName option; every validate function is synchronous *)

EvtValidation(fieldEvent, ruleEvent) ==
    Validation(fieldEvent, NotRequired, NoFn,
               << Rule("r0", UNDEF, UNDEF, Fn("sync", "adult"), ruleEvent),
                  Rule("r1", "warning", UNDEF, Fn("sync", "truthy"), UNDEF) >>)

EvtValues == {"15", "20"}
ByUser == SetterOptions(TRUE, FALSE, FALSE)

InitEvt ==
    \E ruleEvent \in {UNDEF, "onTouch", "onChange", "all"} :
      \E fieldEvent \in {UNDEF, "onChange", "all"} :
        \E formEvent \in {UNDEF, "onTouch"} :
          InitWith([NoValidation EXCEPT !["a"] = <<EvtValidation(fieldEvent, ruleEvent)>>],
                   [NoOptions EXCEPT !.validationEventName = formEvent])

NextEvt ==
    \/ \E e \in EventNames : validateField("a", e)
    \/ \E v \in EvtValues : setValue("a", v, NoSetterOptions)
    \/ \E v \in EvtValues : setValue("a", v, ByUser)
    \/ \E v \in EvtValues : handleInput("a", v)
    \/ handleBlur("a")

SpecEvt == InitEvt /\ [][NextEvt]_vars

----------------------------------------------------------------------------
(* C6, C7 *)

\* the slots validateField can evaluate for a field with settings
ConfiguredSlots(f) ==
    (IF RequiredIsSet(validationMap[f][1].required) THEN {RequiredSlot} ELSE {})
    \cup {i - 1 : i \in 1 .. Len(validationMap[f][1].rules)}

WasInvoked(f, slot) ==
    \E k \in 1 .. Len(ret.invoked) : ret.invoked[k] = [field |-> f, slot |-> slot]

TriggerOf(f, slot) == RuleEventName(RuleAt(f, slot), validationMap[f][1], options)

Routed(e, T) ==
    e = "all" \/ T = "all" \/ T = e \/ (e = "onTouch" /\ T = "onChange")

RanValidation == ret.op \in {"validateField", "validate", "setValue", "handleInput", "handleBlur"}

\* C6: a rule with effective trigger T is evaluated by a validation with
\* eventName e exactly when e = 'all', T = 'all', T = e, or e = 'onTouch' and
\* T = 'onChange'
C6_EventRouting ==
    RanValidation =>
        \A k \in 1 .. Len(ret.fields) :
            LET f == ret.fields[k]
            IN validationMap[f] # Null =>
                   \A slot \in ConfiguredSlots(f) :
                       WasInvoked(f, slot) <=> Routed(ret.eventName, TriggerOf(f, slot))

\* a user input evaluated the 'onChange' rule and not the 'onBlur' rule
C6_Witness ==
    /\ ret.op = "handleInput"
    /\ TriggerOf("a", 0) = "onChange" /\ WasInvoked("a", 0)
    /\ TriggerOf("a", 1) = "onBlur" /\ ~WasInvoked("a", 1)

ClaimedTrigger(f, slot) ==
    LET rule == RuleAt(f, slot)
    IN IF rule.eventName # UNDEF THEN rule.eventName
       ELSE IF validationMap[f][1].eventName # UNDEF THEN validationMap[f][1].eventName
       ELSE IF options.validationEventName # UNDEF THEN options.validationEventName
       ELSE "onBlur"

Unconfigured(f) ==
    /\ validationMap[f] # Null
    /\ options.validationEventName = UNDEF
    /\ validationMap[f][1].eventName = UNDEF
    /\ \A i \in 1 .. Len(validationMap[f][1].rules) : validationMap[f][1].rules[i].eventName = UNDEF

\* the rules evaluated are those routed by the trigger the claim names; with no
\* eventName configured setValue and a user input evaluate nothing, and a blur
\* or a validation with 'all' shows the message of every failing rule
C7_State ==
    RanValidation =>
        \A k \in 1 .. Len(ret.fields) :
            LET f == ret.fields[k]
            IN validationMap[f] # Null =>
                  /\ \A slot \in ConfiguredSlots(f) :
                         WasInvoked(f, slot) <=> Routed(ret.eventName, ClaimedTrigger(f, slot))
                  /\ (Unconfigured(f) /\ ret.op \in {"setValue", "handleInput"}) =>
                         ret.invoked = <<>>
                  /\ (Unconfigured(f) /\ (ret.op = "handleBlur" \/ ret.eventName = "all")) =>
                         \A slot \in ConfiguredSlots(f) :
                             /\ WasInvoked(f, slot)
                             /\ SlotMessage(f, slot) # Null =>
                                    /\ InMessages(f, SlotMessage(f, slot)[1])
                                    /\ SlotMessage(f, slot)[1].type = "error" =>
                                           GetFieldState(f).error

\* with no eventName configured a field gets messages only by a validation
\* whose eventName is 'onBlur' or 'all'
C7_Step ==
    \A f \in Fields :
        (Unconfigured(f) /\ MessagesOf(f) = Null /\ MessagesOf(f)' # Null) =>
            ret'.eventName \in {"onBlur", "all"}

\* C7: the effective trigger of a rule is rule.eventName, else the field's
\* eventName, else options.validationEventName, else 'onBlur'; so with nothing
\* configured the message of a failing rule appears only after handleBlur or a
\* validation with 'all'
C7_EffectiveTrigger == [](C7_State) /\ [][C7_Step]_vars

\* with nothing configured, a value was set twice and the blur that followed
\* showed the message of the failing rule and raised error
C7_Witness ==
    /\ Unconfigured("a")
    /\ ret.op = "handleBlur"
    /\ GetFieldState("a").changed = 2
    /\ GetValue(valuesMap, "a") = "15"
    /\ MessagesOf("a") = << <<Msg("r0", "error")>> >>
    /\ GetFieldState("a").error

----------------------------------------------------------------------------
(* SpecReq: the required rule. The constructor is given one of the forms of
   required with the combinations of the field's requiredValidate and the
   form's requiredValidate and requiredMessage; values are written without
   validation and the field is then validated *)

RequiredWithValidate == RequiredRule(Rule("rq", "warning", UNDEF, Fn("sync", "truthy"), UNDEF))
RequiredWithoutValidate == RequiredRule(Rule("rq", UNDEF, UNDEF, NoFn, UNDEF))

RequiredForms ==
    {RequiredTrue, RequiredString("Must"), RequiredString(""),
     RequiredWithValidate, RequiredWithoutValidate}

ReqValidation(required, requiredValidate) ==
    Validation(UNDEF, required, requiredValidate,
               << Rule("r0", UNDEF, UNDEF, Fn("sync", "truthy"), UNDEF) >>)

InitReq ==
    \E required \in RequiredForms :
      \E fieldFn \in {NoFn, Fn("sync", "truthy")} :
        \E formFn \in {NoFn, Fn("sync", "adult")} :
          \E formMessage \in {UNDEF, "Required", ""} :
            InitWith([NoValidation EXCEPT !["a"] = <<ReqValidation(required, fieldFn)>>],
                     [NoOptions EXCEPT !.requiredValidate = formFn,
                                       !.requiredMessage = formMessage])

NextReq ==
    \/ \E v \in Values : setValue("a", v, WriteOnly)
    \/ \E e \in {"all", "onBlur", "onChange"} : validateField("a", e)
    \/ clearFieldValidationMessages("a")

SpecReq == InitReq /\ [][NextReq]_vars

----------------------------------------------------------------------------
(* C9, C10 *)

RequiredOf(f) == validationMap[f][1].required

\* the validate function the claims name for the required rule
ClaimedRequiredValidate(f) ==
    IF validationMap[f][1].requiredValidate.kind # "none" THEN validationMap[f][1].requiredValidate
    ELSE IF options.requiredValidate.kind # "none" THEN options.requiredValidate
    ELSE Fn("sync", "builtin")

ClaimedPass(fn, v) ==
    IF fn.pass = "builtin" THEN v \notin {VUndef, VNull, VEmpty, VZero}
    ELSE Predicate(fn.pass, v, Null) = "true"

OutcomeOf(f, slot) ==
    LET k == CHOOSE k \in 1 .. Len(ret.invoked) : ret.invoked[k] = [field |-> f, slot |-> slot]
    IN ret.outcomes[k]

FirstMessage(f) == IF MessagesOf(f) = Null THEN Null ELSE <<MessagesOf(f)[1][1]>>

\* what a validation with 'all' leaves for a required rule with the given
\* validate function and message
RequiredApplied(f, fn, message) ==
    LET pass == ClaimedPass(fn, GetValue(valuesMap, f))
    IN /\ WasInvoked(f, RequiredSlot)
       /\ OutcomeOf(f, RequiredSlot) = pass
       /\ pass => SlotMessage(f, RequiredSlot) = Null
       /\ ~pass => /\ SlotMessage(f, RequiredSlot) = <<Msg(message, "error")>>
                   /\ FirstMessage(f) = <<Msg(message, "error")>>

ValidatedAll(f) == ret.op = "validateField" /\ ret.fields = <<f>> /\ ret.eventName = "all"

C10_RequiredRuleDefaults ==
    \A f \in Fields :
        (ValidatedAll(f) /\ validationMap[f] # Null
         /\ RequiredOf(f).kind = "rule" /\ RequiredOf(f).rule[1].validate.kind = "none") =>
            /\ WasInvoked(f, RequiredSlot)
            /\ OutcomeOf(f, RequiredSlot) =
                   ClaimedPass(ClaimedRequiredValidate(f), GetValue(valuesMap, f))

----------------------------------------------------------------------------
(* C11, C12, C13: what a step fires, under SpecSync *)

FiredFor(evs, hook, f) ==
    {i \in 1 .. Len(evs) : evs[i].hook = hook /\ evs[i].field = f}

SyncValidationOf(r) == r.op = "validateField" /\ r.kind = "boolean"

\* every rule the second run evaluated was evaluated by the first with the same outcome
SameOutcomes(r1, r2) ==
    \A k \in 1 .. Len(r2.invoked) :
        \E j \in 1 .. Len(r1.invoked) :
            r1.invoked[j] = r2.invoked[k] /\ r1.outcomes[j] = r2.outcomes[k]

C11_Step ==
    (SyncValidationOf(ret) /\ SyncValidationOf(ret') /\ ret'.fields = ret.fields
     /\ SameOutcomes(ret, ret')) =>
        /\ fired' = <<>>
        /\ stateMap' = stateMap

\* C11: a field validated twice in a row with unchanged rule outcomes keeps its
\* messages array and the second run fires no onMessagesChange, onErrorChange
\* or onWarningChange
C11_IdentityStable == [][C11_Step]_vars

\* a validation found a rule failed, fired nothing, and the failure message of
\* the rule is among the messages: an earlier run had stored it
C11_Witness ==
    /\ SyncValidationOf(ret)
    /\ fired = <<>>
    /\ \E k \in 1 .. Len(ret.invoked) :
           /\ ~ret.outcomes[k]
           /\ InMessages(ret.invoked[k].field,
                         FailureMessage(RuleAt(ret.invoked[k].field, ret.invoked[k].slot)))

C12_Step ==
    \A f \in Fields :
        FiredFor(fired', "onMessagesChange", f) # {} => MessagesOf(f)' # MessagesOf(f)

\* C12: onMessagesChange is invoked, and the messages array replaced, only by
\* an operation that changes the composed content of the messages of the field
C12_MessagesChangeIsReal == [][C12_Step]_vars

C13_Step ==
    \A f \in Fields :
        /\ \A i \in FiredFor(fired', "onErrorChange", f) :
               /\ fired'[i].flag # fired'[i].prevFlag
               /\ fired'[i].prevFlag = GetFieldState(f).error
               /\ fired'[i].flag = GetFieldState(f).error'
        /\ \A i \in FiredFor(fired', "onWarningChange", f) :
               /\ fired'[i].flag # fired'[i].prevFlag
               /\ fired'[i].prevFlag = GetFieldState(f).warning
               /\ fired'[i].flag = GetFieldState(f).warning'

\* C13: onErrorChange (onWarningChange) is invoked only when the flag flips,
\* with prevError its value before the operation and error its value after
C13_FlagHooks == [][C13_Step]_vars

\* the messages of a field changed while its error flag stayed true, and only
\* onMessagesChange was invoked
C13_Witness ==
    /\ FiredFor(fired, "onMessagesChange", "a") # {}
    /\ FiredFor(fired, "onErrorChange", "a") = {}
    /\ \E i \in FiredFor(fired, "onMessagesChange", "a") :
           /\ fired[i].prevMessages # Null
           /\ \E k \in 1 .. Len(fired[i].prevMessages[1]) :
                  fired[i].prevMessages[1][k].type = "error"
    /\ GetFieldState("a").error
    /\ internalStateMap["a"] # Null /\ internalStateMap["a"][1].errorOverride = Null

----------------------------------------------------------------------------
(* SpecVal: the operations of the API that write values, on two fields with synchronous
   rules; the rule of "a" compares it with "b" and so shows which values a
   validate function sees *)

ValValidation ==
    [NoValidation EXCEPT
        !["a"] = <<Validation(UNDEF, NotRequired, NoFn,
                              << Rule("r0", UNDEF, UNDEF, Fn("sync", "eqB"), "onChange") >>)>>,
        !["b"] = <<Validation(UNDEF, NotRequired, NoFn,
                              << Rule("r1", UNDEF, UNDEF, Fn("sync", "adult"), "all") >>)>>]

ValValues == {"15", "20"}

\* values objects with at most one property per field, in both key orders
ValObjects ==
    {<<>>, <<Entry("a", "15")>>,
     <<Entry("a", "20"), Entry("b", "20")>>, <<Entry("b", "20"), Entry("a", "15")>>}

ValDefaults == {Null, << <<Entry("a", "15")>> >>}

SetterForms ==
    {NoSetterOptions, ByUser, WriteOnly,
     SetterOptions(FALSE, TRUE, FALSE), SetterOptions(FALSE, FALSE, TRUE)}
BulkForms == {NoSetterOptions, ByUser, WriteOnly}

InitVal ==
    \E dv \in ValDefaults :
        InitWith(ValValidation, [MessageOptions EXCEPT !.defaultValues = dv])

\* get touched(), get changed(), get blurred() of the form
RECURSIVE SumOver(_, _, _)
SumOver(st, fields, counter) ==
    IF fields = <<>> THEN 0
    ELSE (IF st[Head(fields)] = Null THEN 0 ELSE st[Head(fields)][1][counter])
         + SumOver(st, Tail(fields), counter)

FormTouched == SumOver(stateMap, FieldOrder, "touched")
FormChanged == SumOver(stateMap, FieldOrder, "changed")
FormBlurred == SumOver(stateMap, FieldOrder, "blurred")

\* the counters of the form stay within the bound of the model
WithinCount == FormChanged + FormBlurred <= MaxCount

\* n more counted changes keep the counters of the form within the bound
Room(n, o) == o.skipChangeUpdate \/ FormChanged + FormBlurred + n <= MaxCount

\* the number of fields resetValues(nv) processes
ResetCount(nv) ==
    Cardinality({valuesKeys[i] : i \in 1 .. Len(valuesKeys)}
                \cup (IF nv = Null
                      THEN (IF options.defaultValues = Null THEN {}
                            ELSE {options.defaultValues[1][i].field :
                                      i \in 1 .. Len(options.defaultValues[1])})
                      ELSE {nv[1][i].field : i \in 1 .. Len(nv[1])}))

NextVal ==
    \/ \E v \in ValValues : \E o \in SetterForms : Room(1, o) /\ setValue("a", v, o)
    \/ \E v \in {VUndef, "20"} : Room(1, NoSetterOptions) /\ setValue("b", v, NoSetterOptions)
    \/ \E obj \in ValObjects : \E o \in BulkForms : Room(Len(obj), o) /\ setValues(obj, o)
    \/ \E o \in BulkForms : Room(Len(valuesKeys), o) /\ clearValues(o)
    \/ \E nv \in {Null} \cup {<<obj>> : obj \in ValObjects} : \E o \in BulkForms :
           Room(ResetCount(nv), o) /\ resetValues(nv, o)

SpecVal == InitVal /\ [][NextVal]_vars

----------------------------------------------------------------------------
(* C14 *)

\* the validation of field f ran in the call recorded by r: both fields have a
\* rule of index 0 that every value change triggers
Validated(r, f) ==
    \E k \in 1 .. Len(r.invoked) : r.invoked[k] = [field |-> f, slot |-> 0]

C14_Step ==
    \A f \in Fields : \A v \in ValValues \cup {VUndef} : \A o \in SetterForms :
        (ret'.op = "setValue" /\ GetValue(valuesMap, f) = v /\ setValue(f, v, o)) =>
            /\ FiredFor(fired', "onValueChange", f) = {}
            /\ valuesMap'[f] = <<v>>
            /\ GetFieldState(f).changed' =
                   GetFieldState(f).changed + (IF o.skipChangeUpdate THEN 0 ELSE 1)
            /\ Validated(ret', f) <=> ~o.skipValidation

\* C14: setValue(f, v) with v identical to the stored value invokes no
\* onValueChange, and still stores v, increments changed unless
\* skipChangeUpdate is set and runs the validation unless skipValidation is set
C14_SameValueStillProcessed == [][C14_Step]_vars

\* a setValue that validated "a" and counted the change without a value event
C14_Witness ==
    /\ ret.op = "setValue"
    /\ Validated(ret, "a")
    /\ FiredFor(fired, "onValueChange", "a") = {}
    /\ GetFieldState("a").changed = 2
    /\ valuesMap["a"] = <<"20">>

----------------------------------------------------------------------------
(* SpecCount: every operation that moves a counter, on the settings of SpecVal *)

InitCount == InitWith(ValValidation, NoOptions)

NextCount ==
    \/ \E f \in Fields : \E o \in SetterForms : Room(1, o) /\ setValue(f, "20", o)
    \/ \E obj \in ValObjects : \E o \in BulkForms : Room(Len(obj), o) /\ setValues(obj, o)
    \/ \E o \in BulkForms : Room(Len(valuesKeys), o) /\ clearValues(o)
    \/ \E o \in BulkForms :
           /\ Room(ResetCount(<< <<Entry("a", "15")>> >>), o)
           /\ resetValues(<< <<Entry("a", "15")>> >>, o)
    \/ Room(1, NoSetterOptions) /\ handleInput("a", "15")
    \/ Room(1, NoSetterOptions) /\ handleBlur("a")

SpecCount == InitCount /\ [][NextCount]_vars

----------------------------------------------------------------------------
(* C15 *)

CounterOf(f, counter) == GetFieldState(f)[counter]

\* the counters of f moved by exactly these amounts
Moved(f, touched, changed, blurred) ==
    /\ CounterOf(f, "touched")' = CounterOf(f, "touched") + touched
    /\ CounterOf(f, "changed")' = CounterOf(f, "changed") + changed
    /\ CounterOf(f, "blurred")' = CounterOf(f, "blurred") + blurred

Bit(b) == IF b THEN 1 ELSE 0

\* what the claim gives every field when the fields of the set are processed
\* by a value operation called with options o
MovedByValues(processed, o) ==
    \A f \in Fields :
        Moved(f, Bit(f \in processed /\ ~o.skipChangeUpdate /\ o.byUser),
                 Bit(f \in processed /\ ~o.skipChangeUpdate), 0)

SeqRange(q) == {q[i] : i \in 1 .. Len(q)}

FreshForm == stateMap = [f \in Fields |-> Null] /\ valuesKeys = <<>>

\* the call recorded by r is op on the fields of the sequence, made with options o
CallOf(r, op, fields, o) ==
    /\ r.op = op
    /\ r.fields = fields
    /\ r.eventName = (IF o.byUser THEN "onTouch" ELSE "onChange")

C15_Step ==
    /\ \A o \in SetterForms :
        /\ \A f \in Fields : \A v \in ValValues :
               (ret'.op = "setValue" /\ valuesMap'[f] = <<v>> /\ setValue(f, v, o)) =>
                   MovedByValues({f}, o)
        /\ \A obj \in ValObjects :
               (CallOf(ret', "setValues", ObjectKeys(obj), o) /\ setValues(obj, o)) =>
                   MovedByValues(SeqRange(ObjectKeys(obj)), o)
        /\ (CallOf(ret', "clearValues", valuesKeys, o) /\ clearValues(o)) =>
               MovedByValues(SeqRange(valuesKeys), o)
        /\ \A obj \in ValObjects :
               (ret'.op = "resetValues" /\ valuesKeys' = ObjectKeys(obj)
                /\ resetValues(<<obj>>, o)) =>
                   MovedByValues(SeqRange(valuesKeys) \cup SeqRange(ObjectKeys(obj)), o)
    /\ \A f \in Fields :
        /\ \A v \in ValValues :
               (ret'.op = "handleInput" /\ handleInput(f, v)) =>
                   \A g \in Fields : Moved(g, Bit(g = f), Bit(g = f), 0)
        /\ (ret'.op = "handleBlur" /\ handleBlur(f)) =>
               \A g \in Fields : Moved(g, 0, 0, Bit(g = f))
    /\ \A obj \in ValObjects :
           (FreshForm /\ Len(obj) = 2 /\ setValues(obj, NoSetterOptions)) =>
               FormChanged' = 2 /\ FormTouched' = 0

\* C15: a value operation gives each field it processes changed + 1 and, only
\* with byUser, touched + 1, and nothing with skipChangeUpdate; handleInput
\* gives changed + 1 and touched + 1; handleBlur gives blurred + 1 only;
\* setValues of two fields on a fresh form leaves form.changed = 2 and
\* form.touched = 0
C15_CountersMove == [][C15_Step]_vars

\* the form right after setValues of two fields on a fresh form
C15_Witness ==
    /\ ret.op = "setValues"
    /\ ret.fields = <<"a", "b">>
    /\ FormChanged = 2
    /\ FormTouched = 0
    /\ \A f \in Fields : CounterOf(f, "changed") = 1

----------------------------------------------------------------------------
(* C16, under SpecVal *)

\* obj[field] of a values object that has the property
ValueIn(obj, field) == obj[CHOOSE i \in 1 .. Len(obj) : obj[i].field = field].value

\* what the rule of index 0 of the field answers on the values of vm
AnswerOn(vm, field) ==
    Predicate(validationMap[field][1].rules[1].validate.pass,
              GetValue(vm, field), <<GetValues(vm)>>) = "true"

\* every handler of the events saw the values of vm
AllSaw(evs, vm) ==
    \A i \in 1 .. Len(evs) :
        evs[i].hook = "onValueChange" => evs[i].seen = <<GetValues(vm)>>

\* every rule invoked in the call recorded by r answered as it does on vm
AllAnswered(r, vm) ==
    \A k \in 1 .. Len(r.invoked) :
        r.invoked[k].slot = 0 => r.outcomes[k] = AnswerOn(vm, r.invoked[k].field)

C16_Step ==
    \A obj \in ValObjects : \A o \in BulkForms :
        (CallOf(ret', "setValues", ObjectKeys(obj), o) /\ setValues(obj, o)) =>
            /\ \A f \in Fields : HasOwn(obj, f) => valuesMap'[f] = <<ValueIn(obj, f)>>
            /\ AllSaw(fired', valuesMap')
            /\ AllAnswered(ret', valuesMap')
            /\ \A f \in Fields :
                   Cardinality(FiredFor(fired', "onValueChange", f)) =
                       Bit(HasOwn(obj, f) /\ ValueIn(obj, f) # GetValue(valuesMap, f))
            /\ \A f \in Fields :
                   (HasOwn(obj, f) /\ ~o.skipValidation) => Validated(ret', f)

\* C16: setValues writes every value before any onValueChange handler and any
\* validate function runs, so each of them observes the fully updated values;
\* onValueChange is invoked once for each field whose value differs and not
\* for the others
C16_WritesFirst == [][C16_Step]_vars

\* setValues({a, b}) that changed only "b": one event, and the rule of "a"
\* compared it with the new value of "b"
C16_Witness ==
    /\ ret.op = "setValues"
    /\ ret.fields = <<"a", "b">>
    /\ FiredFor(fired, "onValueChange", "a") = {}
    /\ Cardinality(FiredFor(fired, "onValueChange", "b")) = 1
    /\ ret.outcomes = <<TRUE, TRUE>>

----------------------------------------------------------------------------
(* C17, C18, under SpecVal *)

ResetArgs == {Null} \cup {<<obj>> : obj \in ValObjects}

\* the newValues _resetValues works on: the argument, else options.defaultValues
Defaulted(nv) == IF nv = Null THEN options.defaultValues ELSE nv

\* the step is resetValues(nv, o)
IsReset(nv, o) ==
    /\ ret'.op = "resetValues"
    /\ ret'.eventName = (IF o.byUser THEN "onTouch" ELSE "onChange")
    /\ resetValues(nv, o)

\* f has an entry in the old values and is a property of the new ones
InBoth(nv, f) ==
    /\ valuesMap[f] # Null
    /\ Defaulted(nv) # Null
    /\ HasOwn(Defaulted(nv)[1], f)

ValueEvents(evs, f) == FiredFor(evs, "onValueChange", f)

\* the call recorded by r counted the change of f and validated it, once each
ProcessedOnce(r, f, o) ==
    /\ CounterOf(f, "changed")' = CounterOf(f, "changed") + Bit(~o.skipChangeUpdate)
    /\ Cardinality({k \in 1 .. Len(r.invoked) : r.invoked[k].field = f}) =
           Bit(~o.skipValidation)

C17_StepAsStated ==
    \A nv \in ResetArgs : \A o \in BulkForms :
        IsReset(nv, o) => \A f \in Fields : InBoth(nv, f) =>
            /\ Cardinality(ValueEvents(fired', f)) = 1
            /\ \A i \in ValueEvents(fired', f) :
                   /\ fired'[i].prevValue = GetValue(valuesMap, f)
                   /\ fired'[i].value = ValueIn(Defaulted(nv)[1], f)
            /\ ProcessedOnce(ret', f, o)

\* C17 as stated: for a field of both the old and the new values resetValues
\* fires exactly one value-change event, from the old value to the new one,
\* and counts and validates the field exactly once
C17_OneEventAsStated == [][C17_StepAsStated]_vars

C17_Step ==
    \A nv \in ResetArgs : \A o \in BulkForms :
        IsReset(nv, o) => \A f \in Fields : InBoth(nv, f) =>
            /\ Cardinality(ValueEvents(fired', f)) =
                   Bit(ValueIn(Defaulted(nv)[1], f) # GetValue(valuesMap, f))
            /\ \A i \in ValueEvents(fired', f) :
                   /\ fired'[i].prevValue = GetValue(valuesMap, f)
                   /\ fired'[i].value = ValueIn(Defaulted(nv)[1], f)
            /\ ProcessedOnce(ret', f, o)

\* C17 amended: for a field of both the old and the new values resetValues
\* fires one value-change event from the old value to the new one when they
\* differ and none when they are identical, never an event to or from
\* undefined, and counts and validates the field exactly once
C17_OneEvent == [][C17_Step]_vars

\* resetValues moved "a" from 15 to 20 with one event and validated it
C17_Witness ==
    /\ ret.op = "resetValues"
    /\ Cardinality(ValueEvents(fired, "a")) = 1
    /\ \E i \in ValueEvents(fired, "a") : fired[i].prevValue = "15" /\ fired[i].value = "20"
    /\ Validated(ret, "a")
    /\ CounterOf("a", "changed") = 1

\* getValues(): Object.fromEntries(this._valuesMap), a new object with one
\* property per entry of the map, in the order of its keys
GetValuesObject(vm, keys) == [i \in 1 .. Len(keys) |-> Entry(keys[i], vm[keys[i]][1])]

C18_Step ==
    \A nv \in ResetArgs : \A o \in BulkForms :
        IsReset(nv, o) =>
            /\ GetValuesObject(valuesMap', valuesKeys') =
                   (IF Defaulted(nv) = Null THEN <<>> ELSE Defaulted(nv)[1])
            /\ \A f \in Fields : (valuesMap'[f] # Null) <=> f \in SeqRange(valuesKeys')

----------------------------------------------------------------------------
(* SpecForce: the overrides of one field under every kind of operation on it:
   validations with a synchronous required rule and a promise-returning
   warning rule, value changes, message operations, changes of the settings *)

ForceRule == Rule("r0", "warning", UNDEF, Fn("async", "truthy"), UNDEF)

ForceValidation == Validation("all", RequiredTrue, NoFn, << ForceRule >>)

InitForce == InitWith([NoValidation EXCEPT !["a"] = <<ForceValidation>>], MessageOptions)

CountOnly == SetterOptions(FALSE, FALSE, TRUE)

SettingsOps(f) ==
    \/ clearFieldValidation(f)
    \/ resetFieldValidation(f, ForceValidation)

NextForce ==
    \/ pending = <<>> /\ validateField("a", "all")
    \/ Settle
    \/ setValue("a", "20", CountOnly)
    \/ addFieldCustomMessages("a", <<CustomError>>)
    \/ resetFieldCustomMessages("a", <<CustomWarning>>)
    \/ clearFieldCustomMessages("a")
    \/ clearFieldValidationMessages("a")
    \/ clearFieldMessages("a")
    \/ clearFieldState("a")
    \/ SettingsOps("a")
    \/ ForceOps("a")

SpecForce == InitForce /\ [][NextForce]_vars

----------------------------------------------------------------------------
(* C19 *)

\* the operations after which the claim no longer holds the flag
EndsErrorForce == {"forceFieldError", "unforceFieldError", "clearFieldState"}
EndsWarningForce == {"forceFieldWarning", "unforceFieldWarning", "clearFieldState"}

C19_Step ==
    \A f \in Fields :
        /\ (ErrorOverrideOf(f) # Null /\ ret'.op \notin EndsErrorForce) =>
               /\ ErrorOverrideOf(f)' = ErrorOverrideOf(f)
               /\ GetFieldState(f).error' = ErrorOverrideOf(f)[1]
        /\ (WarningOverrideOf(f) # Null /\ ret'.op \notin EndsWarningForce) =>
               /\ WarningOverrideOf(f)' = WarningOverrideOf(f)
               /\ GetFieldState(f).warning' = WarningOverrideOf(f)[1]
        /\ \A b \in BOOLEAN :
               /\ forceFieldError(f, b) =>
                      ErrorOverrideOf(f)' = <<b>> /\ GetFieldState(f).error' = b
               /\ forceFieldWarning(f, b) =>
                      WarningOverrideOf(f)' = <<b>> /\ GetFieldState(f).warning' = b

\* C19: forceFieldError(f, b) makes error equal to b, and every later
\* operation other than forceFieldError, unforceFieldError and clearFieldState
\* on f leaves it so, clearFieldMessages included; the same for
\* forceFieldWarning and warning
C19_ForcePersists == [][C19_Step]_vars

\* clearFieldMessages left error forced to true on a field without messages
C19_Witness ==
    /\ ret.op = "clearFieldMessages"
    /\ ErrorOverrideOf("a") = <<TRUE>>
    /\ GetFieldState("a").error
    /\ MessagesOf("a") = Null
    /\ WarningOverrideOf("a") = <<FALSE>>

----------------------------------------------------------------------------
(* C20, under SpecForce *)

\* some message held in the message sources of f has the type
SourcesHaveType(f, type) ==
    /\ internalStateMap[f] # Null
    /\ \E i \in 1 .. Len(InternalMessageList(internalStateMap[f][1])) :
           InternalMessageList(internalStateMap[f][1])[i].type = type

\* the step left alone everything of f but one flag and fired no hook other
\* than the one of that flag
OnlyFlag(f, flag, hook) ==
    /\ MessagesOf(f)' = MessagesOf(f)
    /\ \A i \in 1 .. Len(fired') : fired'[i].hook = hook
    /\ \A k \in {"error", "warning", "touched", "changed", "blurred"} \ {flag} :
           GetFieldState(f)[k]' = GetFieldState(f)[k]
    /\ valuesMap' = valuesMap
    /\ valuesKeys' = valuesKeys

C20_StepAsStated ==
    \A f \in Fields :
        /\ ret'.op \in {"forceFieldError", "unforceFieldError"} =>
               OnlyFlag(f, "error", "onErrorChange")
        /\ ret'.op \in {"forceFieldWarning", "unforceFieldWarning"} =>
               OnlyFlag(f, "warning", "onWarningChange")
        /\ unforceFieldError(f) =>
               GetFieldState(f).error' = HasType(MessagesOf(f)', "error")
        /\ unforceFieldWarning(f) =>
               GetFieldState(f).warning' = HasType(MessagesOf(f)', "warning")

\* C20 as stated: forceFieldError and unforceFieldError change only the error
\* flag, unforceFieldError sets it to whether some current message of the
\* field has type error; messages, warning, counters and value are unchanged
\* and neither onMessagesChange nor onWarningChange is invoked; the same for
\* the warning operations
C20_OnlyFlagAsStated == [][C20_StepAsStated]_vars

C20_Step ==
    \A f \in Fields :
        /\ ret'.op \in {"forceFieldError", "unforceFieldError"} =>
               OnlyFlag(f, "error", "onErrorChange")
        /\ ret'.op \in {"forceFieldWarning", "unforceFieldWarning"} =>
               OnlyFlag(f, "warning", "onWarningChange")
        /\ unforceFieldError(f) =>
               GetFieldState(f).error' = SourcesHaveType(f, "error")'
        /\ unforceFieldWarning(f) =>
               GetFieldState(f).warning' = SourcesHaveType(f, "warning")'

\* C20 amended: as stated, except that unforceFieldError sets error to whether
\* some message held in the message sources of the field (its required
\* message, rule messages and custom messages) has type error, shown in
\* messages or not; the same for unforceFieldWarning
C20_OnlyFlag == [][C20_Step]_vars

\* unforceFieldError turned error back on, on a field that shows an error
\* message, has a value and a counted change
C20_Witness ==
    /\ ret.op = "unforceFieldError"
    /\ Len(fired) = 1
    /\ fired[1].hook = "onErrorChange"
    /\ fired[1].flag
    /\ HasType(MessagesOf("a"), "error")
    /\ GetFieldState("a").changed > 0
    /\ GetFieldState("a").warning

----------------------------------------------------------------------------
(* C21, under SpecForce *)

\* the validation messages a field holds: its required message and the
\* defined entries of its rulesMessages, in order
ValidationMessagesOf(f) ==
    IF internalStateMap[f] = Null THEN <<>>
    ELSE LET ifs == internalStateMap[f][1]
         IN (IF ifs.requiredMessage = Null THEN <<>> ELSE <<ifs.requiredMessage[1]>>)
            \o (IF ifs.rulesMessages = Null THEN <<>>
                ELSE RulesMessagesFrom(ifs.rulesMessages[1], 0))

CustomMessagesOf(f) == CustomOf(internalStateMap, f)

\* messages as a sequence (null reads as none)
ShownOf(f) == IF MessagesOf(f) = Null THEN <<>> ELSE MessagesOf(f)[1]

\* what no message operation may change
MessageFrame(f) ==
    /\ \A k \in {"touched", "changed", "blurred"} : GetFieldState(f)[k]' = GetFieldState(f)[k]
    /\ valuesMap' = valuesMap
    /\ valuesKeys' = valuesKeys
    /\ ErrorOverrideOf(f)' = ErrorOverrideOf(f)
    /\ WarningOverrideOf(f)' = WarningOverrideOf(f)
    /\ validationMap' = validationMap

MessageOpNames ==
    {"clearFieldMessages", "clearFieldValidationMessages", "clearFieldCustomMessages",
     "addFieldCustomMessages", "resetFieldCustomMessages"}

C21_Step ==
    \A f \in Fields :
        /\ ret'.op \in MessageOpNames =>
               /\ MessageFrame(f)
               /\ ShownOf(f)' = ValidationMessagesOf(f)' \o CustomMessagesOf(f)'
        /\ (ret'.op = "clearFieldValidationMessages" /\ clearFieldValidationMessages(f)) =>
               /\ ValidationMessagesOf(f)' = <<>>
               /\ CustomMessagesOf(f)' = CustomMessagesOf(f)
        /\ (ret'.op = "clearFieldCustomMessages" /\ clearFieldCustomMessages(f)) =>
               /\ ValidationMessagesOf(f)' = ValidationMessagesOf(f)
               /\ CustomMessagesOf(f)' = <<>>
        /\ \A m \in {<<CustomError>>, <<CustomWarning>>} :
               /\ (ret'.op = "resetFieldCustomMessages" /\ resetFieldCustomMessages(f, m)) =>
                      /\ ValidationMessagesOf(f)' = ValidationMessagesOf(f)
                      /\ CustomMessagesOf(f)' = m
               /\ (ret'.op = "addFieldCustomMessages" /\ addFieldCustomMessages(f, m)) =>
                      /\ ValidationMessagesOf(f)' = ValidationMessagesOf(f)
                      /\ CustomMessagesOf(f)' = CustomMessagesOf(f) \o m
                      /\ ShownOf(f)' =
                             ValidationMessagesOf(f) \o CustomMessagesOf(f) \o m
        /\ (ret'.op = "clearFieldMessages" /\ clearFieldMessages(f)) =>
               /\ ValidationMessagesOf(f)' = <<>>
               /\ CustomMessagesOf(f)' = <<>>
               /\ MessagesOf(f)' = Null

\* C21: clearFieldValidationMessages drops the required and rule messages and
\* keeps the custom ones, clearFieldCustomMessages and resetFieldCustomMessages
\* change the custom ones only, addFieldCustomMessages puts the new messages
\* after all the others, clearFieldMessages drops all; none of them changes a
\* counter, the value, an override or the settings
C21_OwnSourceOnly == [][C21_Step]_vars

\* clearFieldValidationMessages left the custom message of a field that has a
\* counted change and a forced flag
C21_Witness ==
    /\ ret.op = "clearFieldValidationMessages"
    /\ ShownOf("a") = <<CustomError>>
    /\ fired # <<>>
    /\ fired[1].hook = "onMessagesChange"
    /\ fired[1].prevMessages # Null
    /\ Len(fired[1].prevMessages[1]) > 1
    /\ GetFieldState("a").changed > 0
    /\ WarningOverrideOf("a") = <<TRUE>>

----------------------------------------------------------------------------
(* SpecSet: the validation settings of two fields are added to, set, reset and
   cleared, field by field and for the whole form, between synchronous
   validations and custom messages *)

SetA == Validation(UNDEF, RequiredTrue, NoFn,
                   << Rule("r0", UNDEF, UNDEF, Fn("sync", "adult"), UNDEF) >>)
SetB == Validation(UNDEF, NotRequired, NoFn,
                   << Rule("r1", "warning", UNDEF, Fn("sync", "truthy"), UNDEF) >>)
SetSettings == {SetB}

\* partial settings given to setFieldValidation
SetPartials == {[required |-> NotRequired, eventName |-> "onBlur"]}

\* rules given to addFieldValidationRules
SetRules == {<< Rule("r2", "info", UNDEF, Fn("sync", "adult"), UNDEF) >>}

\* validation objects given to the operations on the form; the second entry
\* of the second holds undefined
SetObjects ==
    { << Entry("a", <<SetA>>) >>,
      << Entry("b", <<SetB>>), Entry("a", Null) >>,
      << Entry("a", <<SetB>>), Entry("b", <<SetA>>) >> }

InitSet == InitWith([NoValidation EXCEPT !["a"] = <<SetA>>], MessageOptions)

SetEvents == {"all", "onBlur"}

NextSet ==
    \/ \E f \in Fields : \E e \in SetEvents : validateField(f, e)
    \/ addFieldCustomMessages("a", <<CustomError>>)
    \/ \E r \in SetRules : addFieldValidationRules("a", r)
    \/ clearFieldValidation("b")
    \/ \E p \in SetPartials : setFieldValidation("a", p)
    \/ \E fv \in SetSettings : resetFieldValidation("b", fv)
    \/ \E v \in SetObjects : setValidation(v)
    \/ \E v \in SetObjects : resetValidation(v)
    \/ clearValidation
    \/ \E f \in Fields : clearFieldState(f)
    \/ \E f \in Fields : getFieldState(f)

SpecSet == InitSet /\ [][NextSet]_vars

(* C22, under SpecSet *)

\* over a step: the required and rule messages of f are gone, its custom
\* messages are the ones it had and are all it shows, and its flags follow
Dropped(f) ==
    /\ ValidationMessagesOf(f)' = <<>>
    /\ CustomMessagesOf(f)' = CustomMessagesOf(f)
    /\ ShownOf(f)' = CustomMessagesOf(f)
    /\ GetFieldState(f).error' =
           IF ErrorOverrideOf(f) # Null THEN ErrorOverrideOf(f)[1]
           ELSE HasType(MessagesOf(f), "error")'
    /\ GetFieldState(f).warning' =
           IF WarningOverrideOf(f) # Null THEN WarningOverrideOf(f)[1]
           ELSE HasType(MessagesOf(f), "warning")'

\* over a step: no message and no flag of f moved
Untouched(f) ==
    /\ GetFieldState(f)' = GetFieldState(f)
    /\ ValidationMessagesOf(f)' = ValidationMessagesOf(f)
    /\ CustomMessagesOf(f)' = CustomMessagesOf(f)

DroppedIn(fields) == \A f \in Fields : IF f \in fields THEN Dropped(f) ELSE Untouched(f)

C22_Step ==
    /\ \A f \in Fields :
           /\ (ret'.op = "clearFieldValidation" /\ clearFieldValidation(f)) => DroppedIn({f})
           /\ \A p \in SetPartials :
                  (ret'.op = "setFieldValidation" /\ setFieldValidation(f, p)) => DroppedIn({f})
           /\ \A fv \in SetSettings :
                  (ret'.op = "resetFieldValidation" /\ resetFieldValidation(f, fv))
                      => DroppedIn({f})
           /\ \A r \in SetRules :
                  (ret'.op = "addFieldValidationRules" /\ addFieldValidationRules(f, r))
                      => DroppedIn({})
    /\ \A v \in SetObjects :
           /\ (ret'.op = "setValidation" /\ setValidation(v))
                  => DroppedIn(SeqRange(ObjectKeys(DefinedEntries(v))))
           /\ (ret'.op = "resetValidation" /\ resetValidation(v))
                  => DroppedIn(SeqRange(ObjectKeys(v)) \cup ValidationKeySet)
    /\ (ret'.op = "clearValidation" /\ clearValidation) => DroppedIn(ValidationKeySet)

\* C22: setFieldValidation, resetFieldValidation, clearFieldValidation,
\* setValidation, resetValidation and clearValidation leave the fields they
\* affect without required and rule messages, with their custom messages and
\* with flags that follow; addFieldValidationRules changes no message
C22_SettingsDropMessages == [][C22_Step]_vars

\* setValidation took the required and rule messages of a field and left its
\* custom message, while the other field kept a rule message
C22_Witness ==
    /\ ret.op = "setValidation"
    /\ ShownOf("a") = <<CustomError>>
    /\ fired # <<>>
    /\ fired[1].hook = "onMessagesChange"
    /\ fired[1].field = "a"
    /\ fired[1].prevMessages # Null
    /\ Len(fired[1].prevMessages[1]) > 2
    /\ ValidationMessagesOf("b") # <<>>

(* C23, under SpecSet *)

C23_Step ==
    \A f \in Fields :
        /\ (ret'.op = "clearFieldState" /\ clearFieldState(f)) =>
               /\ stateMap'[f] = Null
               /\ internalStateMap'[f] = Null
               /\ ret'.value = (stateMap[f] # Null)
               /\ GetFieldState(f)' = EmptyFieldState
               /\ \A g \in Fields \ {f} :
                      /\ stateMap'[g] = stateMap[g]
                      /\ internalStateMap'[g] = internalStateMap[g]
        /\ (ret.op = "clearFieldState" /\ stateMap[f] = Null /\ internalStateMap[f] = Null
              /\ ret'.op = "getFieldState" /\ getFieldState(f)) =>
               ret'.value = EmptyFieldState

\* C23: clearFieldState(f) removes the entries of f from the field states and
\* the internal states, returns true exactly when f had a field state, leaves
\* the entries of the other fields as they are, and getFieldState(f) right
\* after it returns the empty state
C23_ClearFieldState == [][C23_Step]_vars

\* getFieldState returned the empty state for a field right after
\* clearFieldState had removed its messages and returned true, while the
\* other field still shows a message
C23_Witness ==
    /\ ret.op = "getFieldState"
    /\ ret.fields = <<"a">>
    /\ ret.value = EmptyFieldState
    /\ stateMap["a"] = <<EmptyFieldState>>
    /\ internalStateMap["a"] = Null
    /\ ShownOf("b") # <<>>

\* clearFieldState returned false for a field without field state
C23_WitnessFalse ==
    /\ ret.op = "clearFieldState"
    /\ ret.value = FALSE
    /\ ShownOf("a") # <<>>

----------------------------------------------------------------------------
(* SpecClear: the states of two validated fields are built up by value
   changes, blurs, a forced warning and a custom message, and then cleared
   with clearState, clear or reset *)

ClearDefaults == << <<Entry("a", "15")>> >>

\* the arguments of reset: Null is a call without newValues
ClearArgs == {Null, << <<Entry("a", "20")>> >>, << <<Entry("b", "20"), Entry("a", "15")>> >>}

InitClear == InitWith(ValValidation, [NoOptions EXCEPT !.defaultValues = ClearDefaults])

NextClear ==
    \/ \E f \in Fields : \E v \in ValValues : \E o \in {NoSetterOptions, ByUser} :
           Room(1, o) /\ setValue(f, v, o)
    \/ Room(1, NoSetterOptions) /\ handleBlur("a")
    \/ forceFieldWarning("b", TRUE)
    \/ addFieldCustomMessages("a", <<CustomError>>)
    \/ clearState
    \/ clear
    \/ \E nv \in ClearArgs : reset(nv)

SpecClear == InitClear /\ [][NextClear]_vars

(* C24, under SpecClear *)

\* form.hasErrors and form.hasWarnings
HasErrors == \E f \in Fields : stateMap[f] # Null /\ stateMap[f][1].error
HasWarnings == \E f \in Fields : stateMap[f] # Null /\ stateMap[f][1].warning

AllEmpty ==
    /\ \A f \in Fields : GetFieldState(f) = EmptyFieldState
    /\ FormTouched = 0
    /\ FormChanged = 0
    /\ FormBlurred = 0
    /\ ~HasErrors
    /\ ~HasWarnings

\* nothing was validated and the settings are the same
NothingRun ==
    /\ ret'.invoked = <<>>
    /\ pending' = Detach(pending, Fields, TRUE)
    /\ validationMap' = validationMap
    /\ options' = options

C24_Step ==
    /\ ret'.op \in {"clearState", "clear", "reset"} => AllEmpty' /\ NothingRun
    /\ ret'.op = "clearState" => valuesMap' = valuesMap /\ valuesKeys' = valuesKeys
    /\ ret'.op = "clear" => GetValuesObject(valuesMap, valuesKeys)' = <<>>
    /\ \A nv \in ClearArgs \ {Null} :
           (ret'.op = "reset" /\ reset(nv)) => GetValuesObject(valuesMap, valuesKeys)' = nv[1]

\* C24: after clearState(), clear() or reset(v) the state of every field is
\* the empty state, the counters of the form are 0 and it has no errors and
\* no warnings; clear() leaves no value and reset(v) leaves the values v; none
\* of them counts a change, validates or changes the settings
C24_AllCleared == [][C24_Step]_vars

\* reset left the values it was given, one of which fails its rule, on a form
\* that had counted changes, an error and a warning: both hooks fired
C24_Witness ==
    /\ ret.op = "reset"
    /\ GetValuesObject(valuesMap, valuesKeys) = <<Entry("b", "20"), Entry("a", "15")>>
    /\ AllEmpty
    /\ FiredFor(fired, "onErrorChange", "a") # {}
    /\ FiredFor(fired, "onWarningChange", "b") # {}
    /\ FiredFor(fired, "onValueChange", "a") # {}

(* C25, under SpecSet *)

C25_Step ==
    \A f \in Fields : \A e \in SetEvents :
        (ret'.op = "validateField" /\ Unset(validationMap[f]) /\ validateField(f, e)) =>
            /\ ret'.kind = "boolean"
            /\ ret'.value = TRUE
            /\ ret'.invoked = <<>>
            /\ fired' = <<>>
            /\ UNCHANGED <<valuesMap, valuesKeys, stateMap, internalStateMap, validationMap,
                           options, pending, forms, formCtrlHolder>>

\* C25: validateField(f, e) on a field without validation settings returns
\* true at once and changes nothing: no entry of the field states or the
\* internal states, no message, flag, counter or value, and no hook is invoked
C25_NoSettingsNoEffect == [][C25_Step]_vars

\* validateField returned true for a field that has neither settings nor any
\* state, while the other field, whose key holds undefined, shows a message
C25_Witness ==
    /\ ret.op = "validateField"
    /\ ret.fields = <<"b">>
    /\ ret.eventName = "onBlur"
    /\ ret.value = TRUE
    /\ validationMap["b"] = Null
    /\ stateMap["b"] = Null
    /\ internalStateMap["b"] = Null
    /\ validationMap["a"] = UndefinedEntry
    /\ ShownOf("a") # <<>>

----------------------------------------------------------------------------
(* SpecSkip: value operations called without options, with skipValidation and
   with other keys in the options, on a required field whose rule returns a
   promise and a field with a synchronous rule; a call that validates is made
   only when no promise is in flight *)

SkipSettings ==
    [NoValidation EXCEPT
        !["a"] = <<Validation("all", RequiredTrue, NoFn,
                              << Rule("r0", "warning", UNDEF, Fn("async", "adult"), UNDEF) >>)>>,
        !["b"] = <<Validation("all", NotRequired, NoFn,
                              << Rule("r1", UNDEF, UNDEF, Fn("sync", "adult"), UNDEF) >>)>>]

\* the other keys of two options objects
ExtraUi == <<Entry("source", "ui")>>
ExtraApi == <<Entry("source", "api"), Entry("silent", "true")>>

SkipForms ==
    { SetterOptions(FALSE, FALSE, TRUE),
      [SetterOptions(TRUE, FALSE, TRUE) EXCEPT !.extra = ExtraUi],
      [SetterOptions(FALSE, TRUE, FALSE) EXCEPT !.extra = ExtraUi],
      [SetterOptions(FALSE, TRUE, FALSE) EXCEPT !.extra = ExtraApi] }

SkipObjects == {<<Entry("a", "20"), Entry("b", "15")>>}
SkipReset == << <<Entry("a", "15")>> >>

InitSkip == InitWith(SkipSettings, MessageOptions)

Quiet(o) == o.skipValidation \/ pending = <<>>

NextSkip ==
    \/ \E v \in ValValues : \E o \in SkipForms :
           Quiet(o) /\ Room(1, o) /\ setValue("a", v, o)
    \/ \E obj \in SkipObjects : \E o \in SkipForms :
           Quiet(o) /\ Room(Len(obj), o) /\ setValues(obj, o)
    \/ \E o \in SkipForms : Quiet(o) /\ Room(Len(valuesKeys), o) /\ clearValues(o)
    \/ \E o \in SkipForms :
           Quiet(o) /\ Room(ResetCount(SkipReset), o) /\ resetValues(SkipReset, o)
    \/ Settle

SpecSkip == InitSkip /\ [][NextSkip]_vars

(* C26, under SpecSkip *)

\* over a step: no validate function ran, no promise was left in flight and
\* the messages and flags of every field are what they were
NoValidationRun ==
    /\ ret'.invoked = <<>>
    /\ pending' = pending
    /\ internalStateMap' = internalStateMap
    /\ \A f \in Fields :
           /\ MessagesOf(f)' = MessagesOf(f)
           /\ GetFieldState(f).error' = GetFieldState(f).error
           /\ GetFieldState(f).warning' = GetFieldState(f).warning

\* what the claim hands to the hooks of a call made with options o
ClaimedOnChangeOptions(o) == IF o.given THEN <<o.extra>> ELSE Null

\* over a step: every hook fired, and every promise left in flight, got them
HandedOn(o) ==
    /\ \A i \in 1 .. Len(fired') : fired'[i].onChangeOptions = ClaimedOnChangeOptions(o)
    /\ Len(pending') >= Len(pending)
    /\ \A c \in Len(pending) + 1 .. Len(pending') :
           pending'[c].onChangeOptions = ClaimedOnChangeOptions(o)

\* over a step of the value operation on these fields: skipValidation keeps
\* the validation away, the counters move and the options are handed on
Skipped(processed, o) ==
    /\ o.skipValidation => NoValidationRun
    /\ MovedByValues(processed, o)
    /\ HandedOn(o)

C26_Step ==
    /\ \A o \in SkipForms :
        /\ \A v \in ValValues :
               (ret'.op = "setValue" /\ setValue("a", v, o)) =>
                   Skipped({"a"}, o) /\ valuesMap'["a"] = <<v>>
        /\ \A obj \in SkipObjects :
               (ret'.op = "setValues" /\ setValues(obj, o)) =>
                   /\ Skipped(SeqRange(ObjectKeys(obj)), o)
                   /\ \A i \in 1 .. Len(obj) : valuesMap'[obj[i].field] = <<obj[i].value>>
        /\ (ret'.op = "clearValues" /\ clearValues(o)) =>
               Skipped(SeqRange(valuesKeys), o) /\ valuesKeys' = <<>>
        /\ (ret'.op = "resetValues" /\ resetValues(SkipReset, o)) =>
               /\ Skipped(SeqRange(valuesKeys) \cup SeqRange(ObjectKeys(SkipReset[1])), o)
               /\ GetValuesObject(valuesMap, valuesKeys)' = SkipReset[1]
    /\ \A c \in 1 .. Len(pending) :
         \A i \in 1 .. Len(pending[c].items) :
           \A j \in 1 .. Len(pending[c].items[i].results) :
               (/\ ret'.kind \in {"resolved", "void"}
                /\ ret'.op \in {"settle", pending[c].op}
                /\ pending[c].items[i].promise
                /\ ~pending[c].items[i].results[j].done
                /\ SettleRule(c, i, j)) =>
                   \A k \in 1 .. Len(fired') :
                       fired'[k].onChangeOptions = pending[c].onChangeOptions

\* C26: with skipValidation, setValue, setValues, clearValues and resetValues
\* invoke no validate function and leave the messages, error and warning of
\* every field as they were, while the values are written and the counters
\* moved; the keys of the options other than byUser, skipChangeUpdate and
\* skipValidation reach every hook the call fires, at once or when a promise
\* of its validation settles
C26_SkipAndHandOn == [][C26_Step]_vars

\* setValue with byUser, skipValidation and another key wrote a valid value:
\* the hook got the other key, the counters moved and the error stayed
C26_Witness ==
    /\ ret.op = "setValue"
    /\ ret.eventName = "-"
    /\ fired # <<>>
    /\ fired[1].hook = "onValueChange"
    /\ fired[1].onChangeOptions = <<ExtraUi>>
    /\ valuesMap["a"] = <<"20">>
    /\ GetFieldState("a").error
    /\ GetFieldState("a").touched > 0

\* a promise of the validation of a call made with other keys settled, and the
\* hook it fired got them
C26_WitnessSettled ==
    /\ ret.kind = "resolved"
    /\ fired # <<>>
    /\ fired[1].hook = "onMessagesChange"
    /\ fired[1].field = "a"
    /\ fired[1].onChangeOptions = <<ExtraApi>>

----------------------------------------------------------------------------
(* SpecNew: forms constructed with values, default values, both or neither,
   some of which fail the rules of their fields, and validated afterwards *)

NewSettings == [NoValidation EXCEPT !["a"] = <<SetA>>, !["b"] = <<SetB>>]

\* values and defaultValues given to the constructor: Null is none
NewValues ==
    {Null, << <<Entry("a", "15")>> >>, << <<Entry("b", VZero), Entry("a", "20")>> >>}
NewDefaults ==
    {Null, << <<Entry("a", "20")>> >>, << <<Entry("a", VEmpty), Entry("b", "20")>> >>}

InitNew ==
    \E values \in NewValues : \E dv \in NewDefaults :
        InitWithValues(NewSettings, values, [MessageOptions EXCEPT !.defaultValues = dv])

NextNew ==
    \/ \E f \in Fields : validateField(f, "all")
    \/ \E f \in Fields : \E v \in ValValues : \E o \in {NoSetterOptions, ByUser} :
           Room(1, o) /\ setValue(f, v, o)
    \/ \E o \in {NoSetterOptions, WriteOnly} :
           Room(ResetCount(Null), o) /\ resetValues(Null, o)

SpecNew == InitNew /\ [][NextNew]_vars

(* C27, under SpecNew *)

\* the value an object gives a field, if it gives one
Given(obj, f) ==
    IF obj = Null \/ ~HasOwn(obj[1], f) THEN Null
    ELSE <<obj[1][CHOOSE i \in 1 .. Len(obj[1]) : obj[1][i].field = f].value>>

\* C27: right after the construction the values are the default values
\* overridden key by key by the values given, no counter has moved, nothing
\* was validated and the state of every field is the empty state, whatever
\* the rules say about the values
C27_ConstructionIsSilent ==
    ret.op = "constructor" =>
        /\ \A f \in Fields :
               /\ valuesMap[f] = IF Given(ret.value, f) # Null THEN Given(ret.value, f)
                                 ELSE Given(options.defaultValues, f)
               /\ (valuesMap[f] # Null) <=> (f \in SeqRange(valuesKeys))
               /\ stateMap[f] = Null
               /\ internalStateMap[f] = Null
               /\ GetFieldState(f) = EmptyFieldState
        /\ FormTouched = 0 /\ FormChanged = 0 /\ FormBlurred = 0
        /\ pending = <<>>
        /\ \A i \in 1 .. Len(fired) : fired[i].hook = "onValueChange"

\* a form constructed with a value that overrides a default value and fails
\* the rule of its field, and with a default value that fails the rule of the
\* other field
C27_Witness ==
    /\ ret.op = "constructor"
    /\ valuesMap["a"] = <<"15">>
    /\ Given(options.defaultValues, "a") = <<VEmpty>>
    /\ valuesMap["b"] = <<"20">>
    /\ valuesKeys = <<"a", "b">>
    /\ GetFieldState("a") = EmptyFieldState

----------------------------------------------------------------------------
(* C30, under SpecSet: a field is configured when it is a key of the settings *)

\* the fields a call returned are exactly these, each once
Returned(r, fields) ==
    /\ SeqRange(r.value) = fields
    /\ Len(r.value) = Cardinality(fields)

C30_Step ==
    /\ \A v \in SetObjects :
           /\ (ret'.op = "setValidation" /\ setValidation(v)) =>
                  \A f \in Fields :
                      validationMap'[f] =
                          IF HasOwn(v, f) /\ EntryOf(v, f).value # Null
                          THEN EntryOf(v, f).value ELSE validationMap[f]
           /\ (ret'.op = "resetValidation" /\ resetValidation(v)) =>
                  /\ ValidationKeySet' = SeqRange(ObjectKeys(v))
                  /\ \A f \in Fields :
                         (HasOwn(v, f) /\ EntryOf(v, f).value # Null)
                             => validationMap'[f] = EntryOf(v, f).value
                  /\ Returned(ret', ValidationKeySet)
    /\ (ret'.op = "clearValidation" /\ clearValidation) =>
           /\ ValidationKeySet' = {}
           /\ Returned(ret', ValidationKeySet)

----------------------------------------------------------------------------
(* SpecStore: instances are constructed under two ids, looked up, listed and
   destroyed *)

InitStore == InitWith(NoValidation, NoOptions)

NextStore ==
    \/ \E id \in FormIds : construct(id)
    \/ \E id \in FormIds : get(id)
    \/ staticKeys
    \/ \E form \in 1 .. Len(forms) : destroy(form)
    \/ destroyAll

SpecStore == InitStore /\ [][NextStore]_vars

(* C28, under SpecStore *)

\* the instance constructed last with this id
LastOf(id) == CHOOSE k \in 1 .. Len(forms) :
                  forms[k] = id /\ \A j \in k + 1 .. Len(forms) : forms[j] # id

\* the entries of the other ids are what they were
OthersKept(id) ==
    \A other \in FormIds \ {id} :
        HolderGet(formCtrlHolder, other)' = HolderGet(formCtrlHolder, other)

C28_State ==
    /\ \A id \in FormIds :
           HolderGet(formCtrlHolder, id) # Null =>
               HolderGet(formCtrlHolder, id) = <<LastOf(id)>>
    /\ \A i, j \in 1 .. Len(formCtrlHolder) :
           i # j => formCtrlHolder[i].id # formCtrlHolder[j].id
    /\ ret.op = "get" => (ret.value = Null \/ ret.value \in {<<k>> : k \in 1 .. Len(forms)})
    /\ ret.op = "keys" => ret.value = HolderKeys(formCtrlHolder)

C28_Step ==
    /\ \A id \in FormIds :
           /\ (ret'.op = "new" /\ construct(id)) =>
                  /\ HolderGet(formCtrlHolder, id)' = <<Len(forms) + 1>>
                  /\ HolderKeys(formCtrlHolder)' =
                         IF HolderHas(formCtrlHolder, id) THEN HolderKeys(formCtrlHolder)
                         ELSE Append(HolderKeys(formCtrlHolder), id)
                  /\ OthersKept(id)
           /\ (ret'.op = "get" /\ get(id)) =>
                  ret'.value = IF HolderHas(formCtrlHolder, id) THEN <<LastOf(id)>> ELSE Null
    /\ \A form \in 1 .. Len(forms) :
           (ret'.op = "destroy" /\ destroy(form)) =>
               /\ HolderGet(formCtrlHolder, forms[form])' = Null
               /\ HolderKeys(formCtrlHolder)' =
                      SelectSeq(HolderKeys(formCtrlHolder), LAMBDA id : id # forms[form])
               /\ OthersKept(forms[form])
    /\ ret'.op = "destroyAll" => formCtrlHolder' = <<>>

\* C28: a constructed instance is stored under its id in place of the one
\* stored before, so get(id) is the instance constructed last with the id;
\* keys() lists the ids in the order they were stored; destroy() removes the
\* entry of the id, after which get(id) is undefined; destroyAll() empties
\* the store
C28_Store == [](C28_State) /\ [][C28_Step]_vars

\* a third instance took the place of the first under its id, which keeps its
\* place before the other id
C28_Witness ==
    /\ ret.op = "new"
    /\ forms = <<"x", "y", "x">>
    /\ HolderGet(formCtrlHolder, "x") = <<3>>
    /\ HolderKeys(formCtrlHolder) = <<"x", "y">>

(* C29, under SpecStore *)

C29_Step ==
    \A form \in 1 .. Len(forms) :
        (ret'.op = "destroy" /\ destroy(form)) =>
            /\ ret'.value.deleted = (HolderGet(formCtrlHolder, forms[form]) = <<form>>)
            /\ ~ret'.value.deleted => formCtrlHolder' = formCtrlHolder

\* C29: destroy() returns true exactly when the store held this instance; on
\* an instance whose id was taken by a later one it returns false and leaves
\* the later one stored
C29_DestroyOwnEntry == [][C29_Step]_vars

----------------------------------------------------------------------------
(* SpecInput: handleInput is given events of every shape for a field with a
   required rule, whose trigger is the default 'onBlur', an 'onChange' rule and
   an 'onTouch' rule, and for a field without settings *)

InputValidation ==
    Validation(UNDEF, RequiredTrue, NoFn,
               << Rule("r0", UNDEF, UNDEF, Fn("sync", "adult"), "onChange"),
                  Rule("r1", "warning", UNDEF, Fn("sync", "truthy"), "onTouch") >>)

NoTarget == TargetOf("undefined", Element(UNDEF, FALSE, VUndef))

InputElements ==
    {Element(UNDEF, FALSE, "15"), Element(UNDEF, FALSE, "20"), Element(UNDEF, FALSE, VUndef),
     Element("checkbox", TRUE, "20"), Element("radio", FALSE, "20"),
     Element("radio", TRUE, "20")}

\* no event, null, a string, {}, {target: null}, {target: 'input'}, and
\* {target: element}; a string has no target the code reads
InputEvents ==
    {EventOf(k, NoTarget) : k \in {"undefined", "null", "string", "object"}}
    \cup {EventOf("object", TargetOf(k, Element(UNDEF, FALSE, "20"))) : k \in {"null", "string"}}
    \cup {EventOf("object", TargetOf("object", el)) : el \in InputElements}

InitInput == InitWith([NoValidation EXCEPT !["a"] = <<InputValidation>>], MessageOptions)

NextInput ==
    \/ \E event \in InputEvents :
           (InputElement("a", event) # Null => CanIncrement("a")) /\ handleInputEvent("a", event)
    \/ \E event \in {EventOf("string", NoTarget),
                      EventOf("object", TargetOf("object", Element(UNDEF, FALSE, "20")))} :
           (InputElement("b", event) # Null => CanIncrement("b")) /\ handleInputEvent("b", event)
    \/ CanBlur("a") /\ handleBlur("a")
    \/ clearFieldState("a")

SpecInput == InitInput /\ [][NextInput]_vars

(* C31, under SpecInput *)

\* the event is not an object or has no object as target
Malformed(event) ==
    \/ event.kind # "object"
    \/ event.target.kind # "object"

\* {target: {value}}
Minimal(event) ==
    /\ event.kind = "object"
    /\ event.target.kind = "object"
    /\ event.target.element.type = UNDEF

C31_Step ==
    \A f \in Fields : \A event \in InputEvents :
        (ret'.op = "handleInput" /\ handleInputEvent(f, event)) =>
            /\ Malformed(event) =>
                   /\ ret'.kind = "void"
                   /\ fired' = <<>>
                   /\ UNCHANGED <<valuesMap, valuesKeys, stateMap, internalStateMap,
                                  validationMap, pending>>
            /\ Minimal(event) =>
                   /\ valuesMap'[f] = <<event.target.element.value>>
                   /\ GetFieldState(f).touched' = GetFieldState(f).touched + 1
                   /\ GetFieldState(f).changed' = GetFieldState(f).changed + 1
                   /\ GetFieldState(f).blurred' = GetFieldState(f).blurred
                   /\ validationMap[f] # Null =>
                          /\ ret'.fields = <<f>>
                          /\ ret'.eventName = "onTouch"
                          /\ \A slot \in ConfiguredSlots(f) :
                                 WasInvoked(f, slot)' <=> TriggerOf(f, slot) # "onBlur"

\* C31: handleInput with an event that is not an object, or whose target is
\* not an object, on a field without registered element returns without
\* changing a value, a counter, a message or a flag and fires no hook; with
\* {target: {value}} it stores value, increments touched and changed and
\* validates with eventName 'onTouch'
C31_MalformedEventIgnored == [][C31_Step]_vars

\* a field with value, counters and messages was given {target: 'input'}
C31_Witness ==
    /\ ret.op = "handleInput"
    /\ ret.fields = <<>>
    /\ valuesMap["a"] = <<"15">>
    /\ GetFieldState("a").touched = 1
    /\ GetFieldState("a").messages # Null

\* {target: {value: 20}} was stored and validated: both rules were evaluated,
\* the required rule was not
C31_WitnessMinimal ==
    /\ ret.op = "handleInput"
    /\ ret.fields = <<"a">>
    /\ ret.eventName = "onTouch"
    /\ WasInvoked("a", 0) /\ WasInvoked("a", 1) /\ ~WasInvoked("a", RequiredSlot)
    /\ valuesMap["a"] = <<"20">>
    /\ GetFieldState("a").touched = 2

----------------------------------------------------------------------------
(* C32, under SpecVal *)

WroteValues == ret.op \in {"setValue", "setValues", "clearValues", "resetValues"}

PlaceIn(fields, f) == CHOOSE i \in 1 .. Len(fields) : fields[i] = f

\* every validate function of the call was invoked after every write and every
\* increment of the call
C32_StepAsStated ==
    WroteValues' =>
        \A k \in 1 .. Len(ret'.saw) :
            /\ ret'.saw[k].values = GetValues(valuesMap')
            /\ ret'.saw[k].counters = CountersOf(stateMap')

\* C32 as stated: all value writes and all counter increments of a call of
\* setValue, setValues, clearValues or resetValues, for every field of the
\* call, are applied before its first validate function is invoked
C32_AllAppliedFirst == [][C32_StepAsStated]_vars

\* the counters of g a validate function of field f could read: those after
\* the call when g is f or is processed before f, those before the call when g
\* is processed after f
C32_Step ==
    WroteValues' =>
        /\ Len(ret'.saw) = Len(ret'.invoked)
        /\ \A k \in 1 .. Len(ret'.saw) :
               LET f == ret'.invoked[k].field
               IN /\ ret'.saw[k].values = GetValues(valuesMap')
                  /\ \A g \in Fields :
                         ret'.saw[k].counters[g] =
                             IF /\ \E i \in 1 .. Len(ret'.fields) : ret'.fields[i] = g
                                /\ PlaceIn(ret'.fields, g) > PlaceIn(ret'.fields, f)
                             THEN CountersOf(stateMap)[g]
                             ELSE CountersOf(stateMap')[g]

\* C32 amended: every value write of the call is applied before its first
\* validate function is invoked, and the counters of a field are incremented
\* before the validate functions of that field are invoked; the counters of the
\* fields processed after it are incremented only after them
C32_OwnFieldFirst == [][C32_Step]_vars

\* setValues of two fields: the validate function of the first was invoked
\* while the second had not been counted
C32_Witness ==
    /\ ret.op = "setValues"
    /\ ret.fields = <<"a", "b">>
    /\ Len(ret.saw) = 2
    /\ ret.invoked[1].field = "a"
    /\ ret.saw[1].values = GetValues(valuesMap)
    /\ ret.saw[1].counters["a"].changed = CountersOf(stateMap)["a"].changed
    /\ ret.saw[1].counters["b"].changed + 1 = CountersOf(stateMap)["b"].changed

----------------------------------------------------------------------------
(* SpecPass: validateField on a field with a synchronous required rule and two
   promise-returning rules; two calls can overlap and the promises settle in
   any order *)

PassValidation ==
    Validation("all", RequiredTrue, NoFn,
               << Rule("r0", UNDEF, UNDEF, Fn("async", "adult"), UNDEF),
                  Rule("r1", "warning", "info", Fn("async", "truthy"), UNDEF) >>)

InitPass == InitWith([NoValidation EXCEPT !["a"] = <<PassValidation>>], MessageOptions)

\* at most two calls are in flight
NextPass ==
    \/ Len(pending) <= 1 /\ validateField("a", "all")
    \/ Settle
    \/ \E v \in {"15", "20"} : setValue("a", v, WriteOnly)

SpecPass == InitPass /\ [][NextPass]_vars

(* C33, under SpecPass *)

RECURSIVE CountHook(_, _)
CountHook(evs, hook) ==
    IF evs = <<>> THEN 0
    ELSE (IF Head(evs).hook = hook THEN 1 ELSE 0) + CountHook(Tail(evs), hook)

\* another promise of the same validateField is not settled
OthersUnsettled(c, i, j) ==
    \E k \in 1 .. Len(pending[c].items[i].results) :
        k # j /\ ~pending[c].items[i].results[k].done

C33_Step ==
    /\ ret'.op \in {"validateField", "settle"} => CountHook(fired', "onMessagesChange") <= 1
    /\ (ret'.op = "validateField" /\ ret'.kind = "promise") =>
           fired' = <<>> /\ stateMap' = stateMap
    /\ \A c \in 1 .. Len(pending) :
         \A i \in 1 .. Len(pending[c].items) :
           \A j \in 1 .. Len(pending[c].items[i].results) :
             (/\ ret'.op \in {"validateField", "settle"}
              /\ ret'.kind # "promise"
              /\ pending' # pending
              /\ ~pending[c].items[i].results[j].done
              /\ OthersUnsettled(c, i, j)
              /\ SettleRule(c, i, j)) =>
                 fired' = <<>> /\ stateMap' = stateMap

\* C33: a validateField invocation recomputes and notifies at most once: the
\* call that returns a promise fires no hook and leaves the field state as it
\* is, so does every promise of it that settles while another one of it is
\* unsettled, and the step in which its last promise settles fires
\* onMessagesChange at most once
C33_OnePass == [][C33_Step]_vars

\* the last of the two promises of a validateField settled and the messages
\* were recomputed and notified once
C33_Witness ==
    /\ ret.op = "validateField"
    /\ ret.kind = "resolved"
    /\ Len(ret.invoked) = 3
    /\ CountHook(fired, "onMessagesChange") = 1
    /\ \E k \in 1 .. Len(fired) :
           fired[k].hook = "onMessagesChange" /\ Len(fired[k].messages[1]) = 3

----------------------------------------------------------------------------
(* C34, under SpecPass *)

\* the message the outcome of a validate function leaves in its slot
OutcomeMessage(e) ==
    IF ~e.rejects /\ e.passed
    THEN (IF e.rule.typeIfPassed = UNDEF THEN Null
          ELSE <<Msg(e.rule.message, e.rule.typeIfPassed)>>)
    ELSE <<Msg(e.rule.message, IF e.rule.type = UNDEF THEN "error" ELSE e.rule.type)>>

\* the rule slot of the internal field state
StoredIn(field, slot) == internalStateMap[field][1].rulesMessages[1][slot]

C34_Step ==
    /\ ret'.op \in {"validateField", "setValue"} /\ ret'.kind # "resolved" =>
           /\ Len(pending') >= Len(pending)
           /\ \A c \in 1 .. Len(pending) : pending'[c] = pending[c]
    /\ \A c \in 1 .. Len(pending) :
         \A i \in 1 .. Len(pending[c].items) :
           \A j \in 1 .. Len(pending[c].items[i].results) :
             (/\ pending' # pending
              /\ Len(pending') <= Len(pending)
              /\ ~pending[c].items[i].results[j].done
              /\ pending[c].items[i].results[j].slot # RequiredSlot
              /\ SettleRule(c, i, j)) =>
                 internalStateMap'[pending[c].items[i].field][1]
                     .rulesMessages[1][pending[c].items[i].results[j].slot] =
                         OutcomeMessage(pending[c].items[i].results[j])

\* C34: a validateField or setValue call leaves the calls in flight as they
\* are, and every promise that settles writes its outcome into the rule slot
\* of the field whatever the slot holds and whichever call it belongs to, so
\* the slot holds the outcome of the promise that settled last
C34_LastSettledWins == [][C34_Step]_vars

\* two calls overlap, the value was written between them; the promise of the
\* second, which passed on the new value, settled first and the promise of the
\* first, which failed on the old value, settled after it: the slot holds the
\* failure
C34_Witness ==
    /\ Len(pending) = 2
    /\ valuesMap["a"] = <<"20">>
    /\ pending[1].items[1].results[2].done /\ ~pending[1].items[1].results[2].passed
    /\ pending[2].items[1].results[2].done /\ pending[2].items[1].results[2].passed
    /\ pending[1].items[1].results[2].slot = 0
    /\ StoredIn("a", 0) = <<Msg("r0", "error")>>

----------------------------------------------------------------------------
(* SpecStale: a field whose required rule and first rule return promises and
   whose second rule is synchronous is validated, counted, and cleared in every
   way while validations are in flight; at most two calls are in flight *)

StaleValidation ==
    Validation("all",
               RequiredRule(Rule("rq", "error", UNDEF, Fn("async", "truthy"), UNDEF)), NoFn,
               << Rule("r0", "warning", UNDEF, Fn("async", "adult"), UNDEF),
                  Rule("r1", "info", UNDEF, Fn("sync", "adult"), UNDEF) >>)

CountedOnly == SetterOptions(TRUE, FALSE, TRUE)

InitStale == InitWith([NoValidation EXCEPT !["a"] = <<StaleValidation>>], NoOptions)

\* no promise of the calls in flight has settled
NoneSettled ==
    \A c \in 1 .. Len(pending) :
      \A i \in 1 .. Len(pending[c].items) :
        \A k \in 1 .. Len(pending[c].items[i].results) :
          LET e == pending[c].items[i].results[k]
          IN e.rule.validate.kind = "async" => ~e.done

\* the messages are cleared before a promise of the calls in flight settles,
\* so that every outcome of these calls settles after them
NextStale ==
    \/ Len(pending) <= 1 /\ validateField("a", "all")
    \/ Settle
    \/ CanIncrement("a") /\ setValue("a", "20", CountedOnly)
    \/ NoneSettled /\ clearFieldValidationMessages("a")
    \/ NoneSettled /\ clearFieldMessages("a")
    \/ clearFieldState("a")
    \/ clearState
    \/ clear
    \/ reset(Null)

SpecStale == InitStale /\ [][NextStale]_vars

(* C35, under SpecStale *)

\* the result of the slot among the results of a validateField
ResultOf(results, slot) == results[CHOOSE k \in 1 .. Len(results) : results[k].slot = slot]

Failed(e) == e.rule.validate.kind = "async" /\ ~e.passed

C35_Step ==
    \A c \in 1 .. Len(pending) :
      \A i \in 1 .. Len(pending[c].items) :
        \A j \in 1 .. Len(pending[c].items[i].results) :
          LET item == pending[c].items[i]
              req  == ResultOf(item.results, RequiredSlot)
              rul  == ResultOf(item.results, 0)
          IN (/\ ret'.kind = "resolved"
              /\ Len(pending) = 1
              /\ ~item.results[j].done
              /\ item.live /\ ~item.rmLive
              /\ Failed(req) /\ Failed(rul)
              /\ SettleRule(c, i, j)) =>
                 (internalStateMap'[item.field][1].requiredMessage = OutcomeMessage(req))
                 <=> (/\ internalStateMap'[item.field][1].rulesMessages # Null
                      /\ internalStateMap'[item.field][1].rulesMessages[1][0]
                             = OutcomeMessage(rul))

\* C35: when clearFieldValidationMessages or clearFieldMessages ran while a
\* validation was in flight and before any of its promises settled, the
\* failure of its required rule and the failure of its first rule are in the
\* internal state of the field together or not at all once its promises have
\* settled
C35_SameForRequiredAndRules == [][C35_Step]_vars

----------------------------------------------------------------------------
(* C36, under SpecSync *)

\* the messages the internal state of a field holds: its required message, the
\* defined entries of its rulesMessages, its custom messages
ComposedOf(f) == ValidationMessagesOf(f) \o CustomMessagesOf(f)

SomeOfType(ms, type) == \E i \in 1 .. Len(ms) : ms[i].type = type

\* C36: with synchronous validate functions, after every operation the state
\* of every field is what its internal state gives: messages is the required
\* message, the rule messages and the custom messages, null when there is
\* none; error is the error override when set and else tells whether one of
\* these messages has type error; warning likewise
C36_StateFollowsInternal ==
    \A f \in Fields :
        /\ MessagesOf(f) = IF ComposedOf(f) = <<>> THEN Null ELSE <<ComposedOf(f)>>
        /\ GetFieldState(f).error =
               IF ErrorOverrideOf(f) # Null THEN ErrorOverrideOf(f)[1]
               ELSE SomeOfType(ComposedOf(f), "error")
        /\ GetFieldState(f).warning =
               IF WarningOverrideOf(f) # Null THEN WarningOverrideOf(f)[1]
               ELSE SomeOfType(ComposedOf(f), "warning")

\* a field shows its required message, a rule message and a custom message
\* after its custom messages were reset, with warning forced to false
C36_Witness ==
    /\ ret.op = "resetFieldCustomMessages"
    /\ Len(ValidationMessagesOf("a")) = 2
    /\ CustomMessagesOf("a") = <<CustomWarning, CustomError>>
    /\ Len(ShownOf("a")) = 4
    /\ WarningOverrideOf("a") = <<FALSE>>
    /\ ~GetFieldState("a").warning
    /\ GetFieldState("a").error

----------------------------------------------------------------------------
(* C37, under SpecEvt *)

InShown(f, message) ==
    \E i \in 1 .. Len(ShownOf(f)) : ShownOf(f)[i] = message

C37_Step ==
    (RanValidation' /\ ret'.eventName # "all") =>
        \A f \in Fields :
            ((\E k \in 1 .. Len(ret'.fields) : ret'.fields[k] = f) /\ validationMap[f] # Null) =>
                \A slot \in ConfiguredSlots(f) :
                    ~Routed(ret'.eventName, TriggerOf(f, slot)) =>
                        /\ SlotMessage(f, slot)' = SlotMessage(f, slot)
                        /\ \A m \in {SlotMessage(f, slot)[n] : n \in 1 .. Len(SlotMessage(f, slot))} :
                               InShown(f, m) => InShown(f, m)'

\* C37: a validation with an eventName other than 'all' leaves the stored
\* message of every rule whose trigger the eventName does not reach as it is,
\* and a shown message of such a rule stays in the messages of the field
C37_OtherTriggersKept == [][C37_Step]_vars

\* a value was set: the 'onChange' rule was evaluated on it, and the warning
\* the 'onBlur' rule left on the value before is still shown
C37_Witness ==
    /\ ret.op = "setValue"
    /\ ret.eventName = "onChange"
    /\ valuesMap["a"] = <<"15">>
    /\ TriggerOf("a", 0) = "onChange" /\ WasInvoked("a", 0)
    /\ TriggerOf("a", 1) = "onBlur" /\ ~WasInvoked("a", 1)
    /\ SlotMessage("a", 1) = <<Msg("r1", "warning")>>
    /\ ShownOf("a") = <<Msg("r0", "error"), Msg("r1", "warning")>>

----------------------------------------------------------------------------
(* C38, under SpecStale *)

\* the message a slot of the field holds in the internal states ist
SlotIn(ist, f, slot) ==
    IF ist[f] = Null THEN Null
    ELSE IF slot = RequiredSlot THEN ist[f][1].requiredMessage
    ELSE IF ist[f][1].rulesMessages = Null THEN Null
    ELSE ist[f][1].rulesMessages[1][slot]

Slots == {RequiredSlot} \cup RuleIdx

\* the state of the field as the states st give it
StateIn(st, f) == EnsureFieldState(st, f)[f][1]

\* nothing has given the field a message or a flag since it was cleared
StillCleared(f) ==
    /\ StateIn(stateMap, f).messages = Null
    /\ ~StateIn(stateMap, f).error /\ ~StateIn(stateMap, f).warning
    /\ \A slot \in Slots : SlotIn(internalStateMap, f, slot) = Null

C38_Step ==
    \A c \in 1 .. Len(pending) :
      \A i \in 1 .. Len(pending[c].items) :
        \A j \in 1 .. Len(pending[c].items[i].results) :
          LET item == pending[c].items[i]
              f    == item.field
          IN (/\ ret'.op \in {"settle", "validateField"}
              /\ item.promise /\ ~item.results[j].done
              /\ ~item.live
              /\ SettleRule(c, i, j)) =>
                 /\ \A slot \in Slots :
                        SlotIn(internalStateMap', f, slot) = SlotIn(internalStateMap, f, slot)
                 /\ \A k \in {"changed", "touched", "blurred"} :
                        StateIn(stateMap', f)[k] = StateIn(stateMap, f)[k]
                 /\ StillCleared(f) =>
                        /\ StateIn(stateMap', f).messages = Null
                        /\ ~StateIn(stateMap', f).error /\ ~StateIn(stateMap', f).warning
                        /\ fired' = <<>>

\* C38: a promise of a validation that settles after clearFieldState,
\* clearState, clear or reset removed the state of its field writes no slot and
\* changes no counter, and while no later operation has given the field a
\* message or a flag its messages stay null, its flags false and no hook fires
C38_NothingResurrected == [][C38_Step]_vars

\* the last promise of a validation that was to recompute the messages has
\* settled after the state of its field was cleared: its failures are nowhere,
\* and the pass left the field an empty state
C38_Witness ==
    /\ ret.op = "validateField" /\ ret.kind = "resolved" /\ ret.value = FALSE
    /\ \E k \in 1 .. Len(ret.outcomes) : ~ret.outcomes[k]
    /\ pending = <<>>
    /\ \A slot \in Slots : SlotIn(internalStateMap, "a", slot) = Null
    /\ stateMap["a"] = <<EmptyFieldState>>

----------------------------------------------------------------------------
(* SpecFrame: two fields with values, counters, custom messages and overrides
   are validated one by one and together *)

CountedByUser == SetterOptions(TRUE, FALSE, TRUE)

InitFrame ==
    InitWith([NoValidation EXCEPT !["a"] = <<MixedValidation>>,
                                  !["b"] = <<SyncValidation>>], MessageOptions)

\* every field is given a value once and "a" is left once; a validation is
\* started when none is in flight
NextFrame ==
    \/ pending = <<>> /\ validateField("a", "all")
    \/ pending = <<>> /\ validate(ValidationKeys(FieldOrder), "all")
    \/ Settle
    \/ \E f \in Fields : CounterOf(f, "changed") = 0 /\ setValue(f, "15", CountedByUser)
    \/ CounterOf("a", "blurred") = 0 /\ pending = <<>> /\ handleBlur("a")
    \/ addFieldCustomMessages("a", <<CustomError>>)
    \/ forceFieldError("a", FALSE)
    \/ forceFieldWarning("b", TRUE)

SpecFrame == InitFrame /\ [][NextFrame]_vars

(* C39, under SpecFrame *)

\* the internal state of the field as the internal states ist give it
InternalIn(ist, f) == EnsureInternalFieldState(ist, f)[f][1]

InFlight(f) ==
    \E c \in 1 .. Len(pending) :
        \E i \in 1 .. Len(pending[c].items) : pending[c].items[i].field = f

C39_Step ==
    (ret'.op \in {"validateField", "validate", "settle"} \/ ret'.kind = "resolved") =>
        /\ valuesMap' = valuesMap /\ valuesKeys' = valuesKeys
        /\ validationMap' = validationMap /\ options' = options
        /\ \A f \in Fields :
              /\ \A k \in {"touched", "changed", "blurred"} :
                     StateIn(stateMap', f)[k] = StateIn(stateMap, f)[k]
              /\ \A k \in {"customMessages", "errorOverride", "warningOverride"} :
                     InternalIn(internalStateMap', f)[k] = InternalIn(internalStateMap, f)[k]
              /\ LET validated ==
                         IF ret'.op = "settle" \/ ret'.kind = "resolved" THEN InFlight(f)
                         ELSE \E k \in 1 .. Len(ret'.fields) : ret'.fields[k] = f
                 IN ~validated =>
                        /\ StateIn(stateMap', f) = StateIn(stateMap, f)
                        /\ \A slot \in Slots :
                               SlotIn(internalStateMap', f, slot)
                                   = SlotIn(internalStateMap, f, slot)

\* C39: a validateField or validate call, and every promise of one that
\* settles, leaves the values, the validation settings, the counters, the
\* custom messages and the overrides of every field as they were, and the
\* slots, messages and flags of the fields it does not validate
C39_ValidationFrame == [][C39_Step]_vars

\* a validateField stored the failure of a rule of a field that has a value,
\* counters, a custom message and an override
C39_Witness ==
    /\ ret.op = "validateField" /\ ret.fields = <<"a">>
    /\ valuesMap["a"] = <<"15">>
    /\ CounterOf("a", "changed") = 1 /\ CounterOf("a", "touched") = 1
    /\ CounterOf("a", "blurred") = 1
    /\ CustomMessagesOf("a") = <<CustomError>>
    /\ ErrorOverrideOf("a") = <<FALSE>>
    /\ SlotMessage("a", 0) = <<Msg("r0", "error")>>
    /\ InShown("a", Msg("r0", "error")) /\ InShown("a", CustomError)
    /\ ~GetFieldState("a").error

----------------------------------------------------------------------------
(* SpecTally: every operation that moves or clears a counter, on the settings
   and the default values of SpecClear *)

NextTally ==
    \/ \E f \in Fields : \E o \in {NoSetterOptions, ByUser} :
           CanIncrement(f) /\ setValue(f, "20", o)
    \/ CanIncrement("a") /\ handleInput("a", "20")
    \/ handleBlur("a")
    \/ \E byUser \in BOOLEAN : incrementChanged("b", byUser)
    \/ incrementBlurred("b")
    \/ \E f \in Fields : clearFieldState(f)
    \/ clearState
    \/ clear
    \/ reset(Null)

SpecTally == InitClear /\ [][NextTally]_vars

(* C40, under SpecTally *)

Counters == {"touched", "changed", "blurred"}

Clearing == {"clearFieldState", "clearState", "clear", "reset"}

\* touched is within changed, for every field and for the form
TouchedWithinChanged(st) ==
    /\ \A f \in Fields : 0 <= StateIn(st, f).touched
                         /\ StateIn(st, f).touched <= StateIn(st, f).changed
    /\ SumOver(st, FieldOrder, "touched") <= SumOver(st, FieldOrder, "changed")

C40_Step ==
    /\ TouchedWithinChanged(stateMap) /\ TouchedWithinChanged(stateMap')
    /\ ret'.op \notin Clearing =>
           \A f \in Fields : \A k \in Counters :
               StateIn(stateMap', f)[k] >= StateIn(stateMap, f)[k]
    /\ ret'.op \in Clearing =>
           \A f \in Fields : \A k \in Counters :
               StateIn(stateMap', f)[k] \in {0, StateIn(stateMap, f)[k]}

\* C40: for every field 0 <= touched <= changed, and form.touched <=
\* form.changed; no operation other than clearFieldState, clearState, clear
\* and reset lowers touched, changed or blurred, and these set them to 0
C40_CountersOrdered == [][C40_Step]_vars

\* both fields were changed, one of them by the user, and one was cleared
C40_Witness ==
    /\ ret.op = "clearFieldState"
    /\ stateMap["a"] = Null
    /\ CounterOf("b", "changed") = 2 /\ CounterOf("b", "touched") = 1
    /\ CounterOf("b", "blurred") = 1
    /\ FormTouched = 1 /\ FormChanged = 2
====
